---------------------------- MODULE Spec2Model ----------------------------
(***************************************************************************)
(* A state-machine model of the FT260 USB-HID to I2C/UART bridge driver    *)
(* (src/hid-ft260.c): the I2C/SMBus transaction engine, its status check   *)
(* and bus reset, the pending-read descriptor, the input report            *)
(* dispatcher, the serial port's transmit ring, line settings and          *)
(* activation, and the binding and unbinding of devices in both modes.     *)
(*                                                                         *)
(* Callers are kernel threads entering ft260_i2c_xfer / ft260_smbus_xfer.  *)
(* The transport (hid_hw_output_report, hid_hw_raw_request, hid_hw_power)  *)
(* and the device are the environment: every transport call returns one of *)
(* the results the environment allows, and the device delivers input       *)
(* reports to ft260_raw_event at any moment.                               *)
(***************************************************************************)
EXTENDS Integers, Sequences, FiniteSets, TLC

(***************************************************************************)
(* Program constants                                                       *)
(***************************************************************************)
FT260_RD_DATA_MAX == 60
FT260_WR_DATA_MAX == 60
FT260_I2C_READ_REQ == 194
FT260_I2C_REPORT_MIN == 208
FT260_I2C_REPORT_MAX == 222
FT260_UART_REPORT_MIN == 240
FT260_UART_REPORT_MAX == 254

FT260_I2C_STATUS_CTRL_BUSY == 1
FT260_I2C_STATUS_ERROR == 2
FT260_I2C_STATUS_ADDR_NO_ACK == 4
FT260_I2C_STATUS_DATA_NO_ACK == 8
FT260_I2C_STATUS_ARBITR_LOST == 16
FT260_I2C_STATUS_CTRL_IDLE == 32
FT260_I2C_STATUS_BUS_BUSY == 64

FT260_FLAG_START == 2
FT260_FLAG_START_STOP == 6
FT260_FLAG_START_STOP_REPEATED == 7

\* errno values, used negated as in the kernel
EIO == 5
EAGAIN == 11
ENOMEM == 12
UART_COUNT_MAX == 4
FT260_IFACE_NONE == 0
FT260_IFACE_I2C == 1
FT260_IFACE_UART == 2
EBUSY == 16
EINVAL == 22
EOPNOTSUPP == 95
ETIMEDOUT == 110
EBADR == 53

\* try = 3 in ft260_hid_output_report_check_status
STATUS_TRIES == 3
\* sizeof(struct ft260_i2c_write_request_report) - sizeof(data): the header
WR_HEADER_LEN == 4

\* the serial port
FIFO_SIZE == 256
TTY_WAKEUP_WATERMARK == FIFO_SIZE \div 2
FT260_SYSTEM_SETTINGS == 161
FT260_SET_UART_CONFIG == 65
FT260_CFG_FLOW_CTRL_OFF == 0
FT260_CFG_FLOW_CTRL_RTS_CTS == 1
FT260_CFG_FLOW_CTRL_NONE == 4
FT260_CFG_DATA_BITS_7 == 7
FT260_CFG_DATA_BITS_8 == 8
FT260_CFG_PAR_NO == 0
FT260_CFG_PAR_ODD == 1
FT260_CFG_PAR_EVEN == 2
FT260_CFG_STOP_ONE_BIT == 0
FT260_CFG_STOP_TWO_BIT == 2
FT260_CFG_BREAKING_NO == 0
FT260_CFG_BAUD_MIN == 1200
FT260_CFG_BAUD_MAX == 12000000
\* baud = 9600 in ft260_uart_change_speed
DEFAULT_BAUD == 9600

(***************************************************************************)
(* Bounds of the model                                                     *)
(***************************************************************************)
\* calls entered over a behaviour, all callers together, and input reports
\* the device delivers over a behaviour: with two concurrent callers,
ConcCalls == 2
ConcEvents == 1

Callers == {1, 2}

(***************************************************************************)
(* C arithmetic                                                            *)
(***************************************************************************)
\* C integer division truncates toward zero
CDiv(a, b) == IF a >= 0 THEN a \div b ELSE -((-a) \div b)

Min(a, b) == IF a <= b THEN a ELSE b

U8(x) == x % 256
U16(x) == x % 65536

\* bit test on a byte: (v & mask) != 0 for a one-bit mask
BitSet(v, mask) == (v \div mask) % 2 = 1

\* FT260_I2C_DATA_REPORT_ID(len), stored into the __u8 report field
FT260_I2C_DATA_REPORT_ID(len) == U8(FT260_I2C_REPORT_MIN + CDiv(len - 1, 4))

\* the first n bytes of a u16 in memory on the (little-endian) host
LeBytes(v, n) == [i \in 1..n |-> IF i = 1 THEN v % 256 ELSE IF i = 2 THEN (v \div 256) % 256 ELSE 0]

\* memcpy(&read_off, buf, n) into a zeroed u16, n <= 2
LeValue(bytes) ==
    (IF Len(bytes) >= 1 THEN bytes[1] ELSE 0) + (IF Len(bytes) >= 2 THEN 256 * bytes[2] ELSE 0)

\* the bytes a caller hands in: byte i of a message buffer
MsgByte(i) == (i * 37 + 11) % 256
MsgData(n) == [i \in 1..n |-> MsgByte(i)]

SubSeqFrom(s, idx, n) == [i \in 1..n |-> s[idx + i]]


(***************************************************************************)
(* ft260_xfer_status: the decoding of the bus_status byte                  *)
(***************************************************************************)
XferStatusRet(bus_status) ==
    IF BitSet(bus_status, FT260_I2C_STATUS_CTRL_BUSY) THEN -EAGAIN
    ELSE IF BitSet(bus_status, FT260_I2C_STATUS_BUS_BUSY) THEN -EBUSY
    ELSE IF BitSet(bus_status, FT260_I2C_STATUS_ERROR) THEN -EIO
    ELSE IF BitSet(bus_status, FT260_I2C_STATUS_CTRL_IDLE) THEN 0
    ELSE -EIO

(***************************************************************************)
(* What the environment may answer                                         *)
(***************************************************************************)
\* hid_hw_output_report / hid_hw_raw_request failing: kmemdup's -ENOMEM or
\* an I/O error of the transport; 1 stands for any non-negative result
SendResults == {1, -ENOMEM, -EIO}
PowerResults == {0, -EIO}
\* ft260_i2c_reset's feature report: set, or failed
ResetResults == {1, -EIO}

\* a status answer: the feature report could not be fetched, or it holds a
\* bus_status byte and a clock
StatusFailures == [ok : {FALSE}, ret : {-ENOMEM, -EIO}, bus_status : {0}, clock : {0}]
StatusReports(statuses, clocks) ==
    [ok : {TRUE}, ret : {0}, bus_status : statuses, clock : clocks]

(***************************************************************************)
(* Requests: the arguments of ft260_i2c_xfer and ft260_smbus_xfer          *)
(***************************************************************************)
I2cReq(num, rd, len0, len1) ==
    [op |-> "i2c", num |-> num, rd |-> rd, len0 |-> len0, len1 |-> len1,
     rw |-> "-", size |-> "-", block0 |-> 0]
SmbusReq(rw, size, block0) ==
    [op |-> "smbus", num |-> 0, rd |-> FALSE, len0 |-> 0, len1 |-> 0,
     rw |-> rw, size |-> size, block0 |-> block0]

SmbusSizes == {"QUICK", "BYTE", "BYTE_DATA", "WORD_DATA", "BLOCK_DATA",
               "I2C_BLOCK_DATA", "PROC_CALL"}

\* the command byte of the SMBus requests
SmbusCmd == 16

\* union i2c_smbus_data: block[0] is the caller's length byte
Block(block0, i) == IF i = 0 THEN block0 ELSE MsgByte(i)
BlockBytes(block0, from, n) == [i \in 1..n |-> Block(block0, from + i - 1)]

NullBuf == [buf |-> 0, off |-> 0]

NoLocals ==
    [sub |-> "-", phase |-> 0, data |-> <<>>, data_len |-> 0, idx |-> 0,
     len |-> 0, flag |-> 0, try |-> 0, ret |-> 0,
     rlen |-> 0, rflag |-> 0, rdst |-> NullBuf, rgen |-> 0,
     left_len |-> 0, read_off |-> 0, roff |-> 0, chunk |-> 0,
     st |-> -1, chk |-> "-"]

(***************************************************************************)
(* Control flow between the engine's sub-operations.  Each operator gives  *)
(* the next program point and locals of the calling thread.                *)
(***************************************************************************)
\* call ft260_i2c_write(dev, addr, data, data_len, flag)
StartWrite(l, data, flag, phase) ==
    [pc |-> "wr_send",
     l |-> [l EXCEPT !.sub = "wr", !.phase = phase, !.data = data,
                     !.data_len = Len(data), !.idx = 0, !.len = 0, !.flag = flag]]

\* call ft260_smbus_write(dev, addr, cmd, data, data_len, flag); data_len is a u8
StartSmbusWrite(l, data, data_len, flag, phase) ==
    [pc |-> "smb_send",
     l |-> [l EXCEPT !.sub = "smb", !.phase = phase, !.data = data,
                     !.data_len = U8(data_len), !.idx = 0, !.len = 0, !.flag = flag]]

\* call ft260_i2c_read(dev, addr, data, len, flag); len is a u16
StartRead(l, dst, len, flag, phase) ==
    [pc |-> "rd_start",
     l |-> [l EXCEPT !.sub = "rd", !.phase = phase, !.rdst = dst,
                     !.rlen = U16(len), !.rflag = flag]]

\* goto i2c_exit / smbus_exit with ret
Finish(l, ret) ==
    [pc |-> "exit", l |-> [l EXCEPT !.sub = "-", !.ret = ret]]

\* an offset write that ends with a stop condition
WriteReadTurnWithStop(req, l) ==
    LET chunk == Min(l.left_len, FT260_RD_DATA_MAX)
        w == StartWrite(l, LeBytes(l.read_off, req.len0), FT260_FLAG_START_STOP, 1)
    IN  [pc |-> w.pc, l |-> [w.l EXCEPT !.chunk = chunk]]

\* one turn of the do-while of ft260_i2c_write_read: the offset write
WriteReadTurn(req, l) ==
    LET chunk == Min(l.left_len, FT260_RD_DATA_MAX)
        w == StartWrite(l, LeBytes(l.read_off, req.len0), FT260_FLAG_START, 1)
    IN  [pc |-> w.pc, l |-> [w.l EXCEPT !.chunk = chunk]]

\* ft260_i2c_write_read up to its first offset write
WriteReadBegin(req, l, buf) ==
    IF req.len0 > 2 THEN Finish(l, -EOPNOTSUPP)
    ELSE WriteReadTurn(req, [l EXCEPT !.left_len = U16(req.len1), !.roff = 0,
                                      !.read_off = LeValue(MsgData(req.len0))])

\* the body of ft260_i2c_xfer after the power hint
I2cXferBegin(req, l, buf) ==
    IF req.num = 1
    THEN IF req.rd
         THEN StartRead(l, [buf |-> buf, off |-> 0], req.len0, FT260_FLAG_START_STOP, 2)
         ELSE StartWrite(l, MsgData(req.len0), FT260_FLAG_START_STOP, 2)
    ELSE WriteReadBegin(req, l, buf)

\* the switch of ft260_smbus_xfer after the power hint
SmbusXferBegin(req, l, buf) ==
    LET dst(o) == [buf |-> buf, off |-> o]
        rd == req.rw = "r"
        cmdOnly(flag, phase) == StartSmbusWrite(l, <<>>, 0, flag, phase)
    IN  CASE req.size = "QUICK" ->
               IF rd THEN StartRead(l, dst(0), 0, FT260_FLAG_START_STOP, 2)
               ELSE cmdOnly(FT260_FLAG_START_STOP, 2)
          [] req.size = "BYTE" ->
               IF rd THEN StartRead(l, dst(0), 1, FT260_FLAG_START_STOP, 2)
               ELSE cmdOnly(FT260_FLAG_START_STOP, 2)
          [] req.size = "BYTE_DATA" ->
               IF rd THEN cmdOnly(FT260_FLAG_START, 1)
               ELSE StartSmbusWrite(l, MsgData(1), 1, FT260_FLAG_START_STOP, 2)
          [] req.size = "WORD_DATA" ->
               IF rd THEN cmdOnly(FT260_FLAG_START, 1)
               ELSE StartSmbusWrite(l, MsgData(2), 2, FT260_FLAG_START_STOP, 2)
          [] req.size = "BLOCK_DATA" ->
               IF rd THEN cmdOnly(FT260_FLAG_START, 1)
               ELSE StartSmbusWrite(l, BlockBytes(req.block0, 0, U8(req.block0 + 1)),
                                    req.block0 + 1, FT260_FLAG_START_STOP, 2)
          [] req.size = "I2C_BLOCK_DATA" ->
               IF rd THEN cmdOnly(FT260_FLAG_START, 1)
               ELSE StartSmbusWrite(l, BlockBytes(req.block0, 1, req.block0),
                                    req.block0, FT260_FLAG_START_STOP, 2)
          [] OTHER -> Finish(l, -EOPNOTSUPP)

\* a read phase that asks for the data bytes without the length byte
SmbusReadPhaseDataOnly(req, l, buf) ==
    LET dst(o) == [buf |-> buf, off |-> o]
    IN  CASE req.size = "BYTE_DATA" ->
               StartRead(l, dst(0), 1, FT260_FLAG_START_STOP_REPEATED, 2)
          [] req.size = "WORD_DATA" ->
               StartRead(l, dst(0), 2, FT260_FLAG_START_STOP_REPEATED, 2)
          [] OTHER ->
               StartRead(l, dst(1), req.block0, FT260_FLAG_START_STOP_REPEATED, 2)

\* the read that follows the command write of an SMBus read
SmbusReadPhase(req, l, buf) ==
    LET dst(o) == [buf |-> buf, off |-> o]
    IN  CASE req.size = "BYTE_DATA" ->
               StartRead(l, dst(0), 1, FT260_FLAG_START_STOP_REPEATED, 2)
          [] req.size = "WORD_DATA" ->
               StartRead(l, dst(0), 2, FT260_FLAG_START_STOP_REPEATED, 2)
          [] req.size = "BLOCK_DATA" ->
               StartRead(l, dst(0), req.block0 + 1, FT260_FLAG_START_STOP_REPEATED, 2)
          [] OTHER ->
               StartRead(l, dst(1), req.block0, FT260_FLAG_START_STOP_REPEATED, 2)

\* where the caller goes when its sub-operation (l.sub) returns ret
Resume(req, l, buf, ret) ==
    IF req.op = "i2c"
    THEN IF req.num = 1
         THEN Finish(l, IF ret < 0 THEN ret ELSE req.num)
         ELSE IF ret < 0 THEN Finish(l, ret)
              ELSE IF l.sub = "wr"
                   THEN StartRead(l, [buf |-> buf, off |-> l.roff], l.chunk,
                                  FT260_FLAG_START_STOP, 1)
                   ELSE LET left == U16(l.left_len - l.chunk)
                            nl == [l EXCEPT !.left_len = left,
                                            !.roff = l.roff + l.chunk,
                                            !.read_off = U16(l.read_off + l.chunk)]
                        IN  IF left > 0 THEN WriteReadTurn(req, nl)
                            ELSE Finish(nl, req.num)
    ELSE IF l.phase = 1
         THEN IF ret # 0 THEN Finish(l, ret) ELSE SmbusReadPhase(req, l, buf)
         ELSE Finish(l, ret)


(***************************************************************************)
(* State                                                                   *)
(***************************************************************************)
VARIABLES
    env,        \* what the callers ask and what the device may answer (fixed)
    pc,         \* pc[c]: the program point of caller c
    req,        \* req[c]: the arguments of c's call
    tid,        \* tid[c]: the number of c's call; names its data buffer
    l,          \* l[c]: the locals of c's call
    sent,       \* sent[c]: the transport calls c's call has made, in order
    result,     \* result[c]: the value c's call returned
    lastRead,   \* lastRead[c]: the last ft260_i2c_read that returned to c
    lock,       \* dev->lock: 0 or the caller counted as its owner
    power,      \* full-power hints held (hid_hw_power)
    clock,      \* dev->clock
    read_buf,   \* dev->read_buf: a place in a caller's buffer, or NULL
    read_idx,   \* dev->read_idx
    read_len,   \* dev->read_len
    done,       \* dev->wait.done
    rx,         \* dev->icount.rx
    txn,        \* calls entered so far
    gen,        \* ft260_i2c_read calls that armed the descriptor so far
    events,     \* input reports delivered so far
    ev,         \* the last input report delivered and what the dispatcher returned
    reqs,       \* the reads whose request reached the device
    wire,       \* the calls owning the transport traffic, in order of sending
    mem,        \* the dispatcher's copies into read_buf, in order
    panic,      \* the dispatcher wrote through a NULL read_buf
    uenv,       \* the serial port's workload and environment (fixed)
    upc,        \* upc[w]: where writer w stands in ft260_uart_write
    ul,         \* ul[w]: the locals of w's call
    xmit,       \* port->xmit_fifo: its indices and the bytes of its ring
    write_buf,  \* port->write_buf, seen as a UART write report
    tx,         \* port->icount.tx
    termios,    \* tty->termios: the line settings last requested
    accepted,   \* the bytes kfifo_in accepted, in order
    dequeued,   \* how many bytes kfifo_out took out so far
    uwire,      \* the UART write reports handed to the transport, in order
    drains,     \* the runs of ft260_uart_transmit_chars that returned
    uwrites,    \* ft260_uart_write calls entered so far
    cfg,        \* the configuration requests made, in order
    ft260_uart_table,   \* ft260_uart_table[i]: the device holding slot i, or 0
    hdev        \* hdev[d]: the binding of HID device d and its context

callerVars == <<pc, req, tid, l, sent, result, lastRead>>
devVars == <<lock, power, clock, read_buf, read_idx, read_len, done, rx>>
ghostVars == <<txn, gen, events, ev, reqs, wire, mem, panic>>
portVars == <<upc, ul, xmit, write_buf, tx, termios>>
portGhosts == <<accepted, dequeued, uwire, drains, uwrites, cfg>>
uartVars == <<uenv, portVars, portGhosts>>
i2cVars == <<env, callerVars, devVars, ghostVars>>
lifeVars == <<ft260_uart_table, hdev>>
vars == <<i2cVars, uartVars, lifeVars>>

NoReq == I2cReq(0, FALSE, 0, 0)
NoEvent == [id |-> 0, length |-> 0, ret |-> 0]
NoRead == [gen |-> 0, dst |-> NullBuf, len |-> 0, how |-> "-", st |-> -1,
           ret |-> 0, writes |-> <<>>]

\* one transport call, as the log keeps it
\* (rc: what the transport returned, negative when it failed)
Rec(k, report, flag, length, data, rc) ==
    [k |-> k, report |-> report, flag |-> flag, length |-> length,
     data |-> data, rc |-> rc]
StatusRec == Rec("status", 0, 0, 0, <<>>, 0)
ResetRec(rc) == Rec("reset", 0, 0, 0, <<>>, rc)

\* the owner sequence of the traffic, consecutive sends of one call merged
WireAdd(w, t) == IF w # <<>> /\ w[Len(w)] = t THEN w ELSE Append(w, t)

\* caller c makes the transport calls recs
Transport(c, recs) ==
    /\ sent' = [sent EXCEPT ![c] = @ \o recs]
    /\ wire' = IF recs = <<>> THEN wire ELSE WireAdd(wire, tid[c])

\* caller c goes on at go.pc with locals go.l
Goto(c, go) ==
    /\ pc' = [pc EXCEPT ![c] = go.pc]
    /\ l' = [l EXCEPT ![c] = go.l]

(***************************************************************************)
(* ft260_i2c_xfer / ft260_smbus_xfer: entry, lock, power hint, exit        *)
(***************************************************************************)
\* a thread enters ft260_i2c_xfer or ft260_smbus_xfer
Call(c) ==
    /\ ~panic
    /\ pc[c] = "idle"
    /\ txn < env.calls
    /\ c \in env.callers
    /\ \E r \in env.requests :
         /\ req' = [req EXCEPT ![c] = r]
         /\ pc' = [pc EXCEPT ![c] = "lock"]
    /\ txn' = txn + 1
    /\ tid' = [tid EXCEPT ![c] = txn + 1]
    /\ UNCHANGED <<env, lifeVars, uartVars, l, sent, result, lastRead, devVars, gen, events, ev, reqs, wire,
                   mem, panic>>

\* a lock that admits everyone
MutexAlwaysFree(c) == TRUE

\* mutex_lock(&dev->lock) may return to c
MutexFree(c) == lock = 0

MutexLock(c) ==
    /\ ~panic
    /\ pc[c] = "lock"
    /\ MutexFree(c)
    /\ lock' = c
    /\ pc' = [pc EXCEPT ![c] = "power"]
    /\ UNCHANGED <<env, lifeVars, uartVars, req, tid, l, sent, result, lastRead, power, clock, read_buf,
                   read_idx, read_len, done, rx, ghostVars>>

\* a release that leaves the mutex with whoever holds it
MutexKeep(c) == lock

\* mutex_unlock(&dev->lock) by c
MutexUnlock(c) == 0

\* hid_hw_power(hdev, PM_HINT_FULLON), then the dispatch on the arguments
PowerOn(c) ==
    /\ ~panic
    /\ pc[c] = "power"
    /\ \E r \in env.powers :
         IF r < 0
         THEN /\ lock' = MutexUnlock(c)
              /\ result' = [result EXCEPT ![c] = r]
              /\ pc' = [pc EXCEPT ![c] = "done"]
              /\ UNCHANGED <<l, power>>
         ELSE /\ power' = power + 1
              /\ Goto(c, IF req[c].op = "i2c"
                         THEN I2cXferBegin(req[c], NoLocals, tid[c])
                         ELSE SmbusXferBegin(req[c], NoLocals, tid[c]))
              /\ UNCHANGED <<lock, result>>
    /\ UNCHANGED <<env, lifeVars, uartVars, req, tid, sent, lastRead, clock, read_buf, read_idx, read_len,
                   done, rx, ghostVars>>

\* i2c_exit / smbus_exit: hid_hw_power(hdev, PM_HINT_NORMAL)
Exit(c) ==
    /\ ~panic
    /\ pc[c] = "exit"
    /\ power' = power - 1
    /\ pc' = [pc EXCEPT ![c] = "unlock"]
    /\ UNCHANGED <<env, lifeVars, uartVars, req, tid, l, sent, result, lastRead, lock, clock, read_buf,
                   read_idx, read_len, done, rx, ghostVars>>

\* mutex_unlock(&dev->lock); return ret
Unlock(c) ==
    /\ ~panic
    /\ pc[c] = "unlock"
    /\ lock' = MutexUnlock(c)
    /\ result' = [result EXCEPT ![c] = l[c].ret]
    /\ pc' = [pc EXCEPT ![c] = "done"]
    /\ UNCHANGED <<env, lifeVars, uartVars, req, tid, l, sent, lastRead, power, clock, read_buf, read_idx,
                   read_len, done, rx, ghostVars>>

\* the caller takes the returned value; its buffer and log are let go
Return(c) ==
    /\ ~panic
    /\ pc[c] = "done"
    /\ pc' = [pc EXCEPT ![c] = "idle"]
    /\ req' = [req EXCEPT ![c] = NoReq]
    /\ l' = [l EXCEPT ![c] = NoLocals]
    /\ sent' = [sent EXCEPT ![c] = <<>>]
    /\ result' = [result EXCEPT ![c] = 0]
    /\ lastRead' = [lastRead EXCEPT ![c] = NoRead]
    /\ UNCHANGED <<env, lifeVars, uartVars, tid, devVars, ghostVars>>


(***************************************************************************)
(* ft260_hid_output_report_check_status, ft260_i2c_write, ft260_smbus_write*)
(***************************************************************************)
\* what ft260_hid_output_report_check_status returns when sending failed
SendFailureRet(r) == r

\* what it returns after the status loop ended with ret
CheckStatusRet(ret) == IF ret = 0 \/ ret = -EBUSY THEN 0 ELSE -EIO

\* a status loop that also waits while the bus is busy
PollAgainOnBusy(ret, try) == (ret = -EAGAIN \/ ret = -EBUSY) /\ try - 1 > 0

\* the status loop polls again: do { ... if (ret != -EAGAIN) break; } while (--try)
PollAgain(ret, try) == ret = -EAGAIN /\ try - 1 > 0

\* a chunk length without the cap at FT260_WR_DATA_MAX
ChunkLenUncapped(data_len) == data_len

\* the chunk length of one turn of ft260_i2c_write
ChunkLen(data_len) ==
    IF data_len <= FT260_WR_DATA_MAX THEN data_len ELSE FT260_WR_DATA_MAX

\* the report one turn of ft260_i2c_write builds in dev->write_buf
I2cWriteReport(data, idx, len, flag) ==
    Rec("wr", FT260_I2C_DATA_REPORT_ID(len), flag, U8(len),
        SubSeqFrom(data, idx, len), 1)

\* ft260_smbus_write refuses the payload
SmbusWriteRejects(data_len) == data_len >= FT260_WR_DATA_MAX

\* the report ft260_smbus_write builds: [cmd, data...], id from the report length
SmbusWriteReport(cmd, data, data_len, flag) ==
    Rec("wr", FT260_I2C_DATA_REPORT_ID(WR_HEADER_LEN + U8(data_len + 1)), flag,
        U8(data_len + 1), <<cmd>> \o SubSeqFrom(data, 0, data_len), 1)

\* a write loop that goes on to the next chunk whatever the check returned
AfterCheckCarryOn(rq, lc, buf, v) ==
    IF lc.sub = "wr"
    THEN LET left == lc.data_len - lc.len
             nl == [lc EXCEPT !.data_len = left, !.idx = lc.idx + lc.len]
         IN  IF left > 0 THEN [pc |-> "wr_send", l |-> nl]
             ELSE Resume(rq, nl, buf, v)
    ELSE Resume(rq, lc, buf, v)

\* a caller of ft260_smbus_write that does not look at what it returned
AfterCheckUnseen(rq, lc, buf, v) ==
    IF lc.sub = "wr"
    THEN IF v < 0 THEN Resume(rq, lc, buf, v)
         ELSE LET left == lc.data_len - lc.len
                  nl == [lc EXCEPT !.data_len = left, !.idx = lc.idx + lc.len]
              IN  IF left > 0 THEN [pc |-> "wr_send", l |-> nl]
                  ELSE Resume(rq, nl, buf, 0)
    ELSE Resume(rq, lc, buf, 0)

\* where c goes when ft260_hid_output_report_check_status returned v
AfterCheck(rq, lc, buf, v) ==
    IF lc.sub = "wr"
    THEN IF v < 0 THEN Resume(rq, lc, buf, v)
         ELSE LET left == lc.data_len - lc.len
                  nl == [lc EXCEPT !.data_len = left, !.idx = lc.idx + lc.len]
              IN  IF left > 0 THEN [pc |-> "wr_send", l |-> nl]
                  ELSE Resume(rq, nl, buf, 0)
    ELSE Resume(rq, lc, buf, v)

\* ft260_hid_output_report_check_status up to the status loop: the report
\* rep is sent; a failure resets the bus and returns
SendAndCheck(c, rep, len) ==
    \E r \in env.sends :
      IF r < 0
      THEN \E rr \in env.resets :
             /\ Transport(c, <<[rep EXCEPT !.rc = r], ResetRec(rr)>>)
             /\ Goto(c, AfterCheck(req[c], [l[c] EXCEPT !.len = len, !.st = -1, !.chk = "-"],
                                   tid[c],
                                   SendFailureRet(r)))
      ELSE /\ Transport(c, <<rep>>)
           /\ \/ /\ clock # 0
                 /\ Goto(c, [pc |-> "poll",
                             l |-> [l[c] EXCEPT !.len = len, !.try = STATUS_TRIES,
                                            !.st = -1, !.chk = "-"]])
              \/ \* usec = 10000 / dev->clock * len with clock = 0: the division
                 \* traps (the thread dies holding the lock) or yields some value
                 /\ clock = 0
                 /\ \E trap \in BOOLEAN :
                      Goto(c, [pc |-> IF trap THEN "oops" ELSE "poll",
                               l |-> [l[c] EXCEPT !.len = len, !.try = STATUS_TRIES,
                                            !.st = -1, !.chk = "-"]])

\* one turn of the do-while of ft260_i2c_write, to the sending of its report
I2cWriteSend(c) ==
    /\ ~panic
    /\ pc[c] = "wr_send"
    /\ LET len == ChunkLen(l[c].data_len)
       IN  SendAndCheck(c, I2cWriteReport(l[c].data, l[c].idx, len, l[c].flag), len)
    /\ UNCHANGED <<env, lifeVars, uartVars, req, tid, result, lastRead, devVars, txn, gen, events, ev, reqs,
                   mem, panic>>

\* ft260_smbus_write, to the sending of its report
SmbusWriteSend(c) ==
    /\ ~panic
    /\ pc[c] = "smb_send"
    /\ IF SmbusWriteRejects(l[c].data_len)
       THEN /\ Goto(c, Resume(req[c], l[c], tid[c], -EINVAL))
            /\ UNCHANGED <<sent, wire>>
       ELSE SendAndCheck(c, SmbusWriteReport(SmbusCmd, l[c].data, l[c].data_len,
                                             l[c].flag),
                         WR_HEADER_LEN + U8(l[c].data_len + 1))
    /\ UNCHANGED <<env, lifeVars, uartVars, req, tid, result, lastRead, devVars, txn, gen, events, ev, reqs,
                   mem, panic>>

\* the answers ft260_xfer_status can get
StatusAnswers == StatusFailures \cup StatusReports(env.statuses, env.clocks)

\* ft260_xfer_status's return value for an answer
StatusRet(s) == IF s.ok THEN XferStatusRet(s.bus_status) ELSE s.ret

\* one ft260_xfer_status call of the status loop, and what follows the loop
Poll(c) ==
    /\ ~panic
    /\ pc[c] = "poll"
    /\ \E s \in StatusAnswers :
         LET ret == StatusRet(s)
             \* st: the bus_status just read (-1: none); chk: what the loop made of it
             lc == [l[c] EXCEPT !.try = @ - 1, !.ret = ret,
                                !.st = IF s.ok THEN s.bus_status ELSE -1,
                                !.chk = IF PollAgain(ret, l[c].try) THEN "retry"
                                        ELSE IF CheckStatusRet(ret) = 0 THEN "ok"
                                        ELSE "fail"]
         IN  /\ clock' = IF s.ok THEN s.clock ELSE clock
             /\ IF PollAgain(ret, l[c].try)
                THEN /\ Transport(c, <<StatusRec>>)
                     /\ Goto(c, [pc |-> "poll", l |-> lc])
                ELSE IF CheckStatusRet(ret) = 0
                     THEN /\ Transport(c, <<StatusRec>>)
                          /\ Goto(c, AfterCheck(req[c], lc, tid[c], 0))
                     ELSE \E rr \in env.resets :
                            /\ Transport(c, <<StatusRec, ResetRec(rr)>>)
                            /\ Goto(c, AfterCheck(req[c], lc, tid[c],
                                                  CheckStatusRet(ret)))
    /\ UNCHANGED <<env, lifeVars, uartVars, req, tid, result, lastRead, lock, power, read_buf, read_idx,
                   read_len, done, rx, txn, gen, events, ev, reqs, mem, panic>>


(***************************************************************************)
(* ft260_i2c_read                                                          *)
(***************************************************************************)
\* ft260_i2c_read refuses the length
ReadRejects(len) == len > FT260_RD_DATA_MAX

\* what ft260_i2c_read returns when the wait timed out
ReadTimeoutRet == -ETIMEDOUT

\* the write path's acceptance, used after a read
ReadStatusRetAsWrite(ret) == IF ret = 0 \/ ret = -EBUSY THEN 0 ELSE -EIO

\* what ft260_i2c_read returns after the status poll that follows completion
ReadStatusRet(ret) == IF ret = 0 THEN 0 ELSE -EIO

\* ft260_i2c_read returns v to c from its return statement `how`, having
\* read the bus_status l[c].st (-1: none): the dispatcher's copies made during
\* the call are kept with the call's result
ReadReturns(c, how, st, v) ==
    /\ lastRead' = [lastRead EXCEPT ![c] =
                      [gen |-> l[c].rgen, dst |-> l[c].rdst, len |-> l[c].rlen,
                       how |-> how, st |-> st, ret |-> v,
                       writes |-> SubSeq(mem, l[c].idx + 1, Len(mem))]]
    /\ Goto(c, Resume(req[c], l[c], tid[c], v))

\* the length check and dev->read_idx = 0
I2cReadStart(c) ==
    /\ ~panic
    /\ pc[c] = "rd_start"
    /\ IF ReadRejects(l[c].rlen)
       THEN /\ Goto(c, Resume(req[c], l[c], tid[c], -EINVAL))
            /\ UNCHANGED <<read_idx, gen>>
       ELSE /\ read_idx' = 0
            /\ gen' = gen + 1
            /\ Goto(c, [pc |-> "rd_arm",
                        l |-> [l[c] EXCEPT !.rgen = gen + 1, !.idx = Len(mem)]])
    /\ UNCHANGED <<env, lifeVars, uartVars, req, tid, sent, result, lastRead, lock, power, clock, read_buf,
                   read_len, done, rx, txn, events, ev, reqs, wire, mem, panic>>

\* dev->read_buf = data; dev->read_len = len
I2cReadArm(c) ==
    /\ ~panic
    /\ pc[c] = "rd_arm"
    /\ read_buf' = l[c].rdst
    /\ read_len' = l[c].rlen
    /\ pc' = [pc EXCEPT ![c] = "rd_send"]
    /\ UNCHANGED <<env, lifeVars, uartVars, req, tid, l, sent, result, lastRead, lock, power, clock,
                   read_idx, done, rx, ghostVars>>

\* the read request report
ReadRequest(len, flag, rc) == Rec("rdreq", FT260_I2C_READ_REQ, flag, len, <<>>, rc)

\* reinit_completion(&dev->wait) and the sending of the read request
I2cReadSend(c) ==
    /\ ~panic
    /\ pc[c] = "rd_send"
    /\ done' = 0
    /\ \E r \in env.sends :
         IF r < 0
         THEN /\ Transport(c, <<ReadRequest(l[c].rlen, l[c].rflag, r)>>)
              /\ ReadReturns(c, "send", -1, r)
              /\ UNCHANGED reqs
         ELSE /\ Transport(c, <<ReadRequest(l[c].rlen, l[c].rflag, r)>>)
              /\ reqs' = reqs \cup {l[c].rgen}
              /\ pc' = [pc EXCEPT ![c] = "rd_wait"]
              /\ UNCHANGED <<l, lastRead>>
    /\ UNCHANGED <<env, lifeVars, uartVars, req, tid, result, lock, power, clock, read_buf, read_idx,
                   read_len, rx, txn, gen, events, ev, mem, panic>>

\* wait_for_completion_timeout returns nonzero: the completion was signalled
I2cReadComplete(c) ==
    /\ ~panic
    /\ pc[c] = "rd_wait"
    /\ done > 0
    /\ done' = done - 1
    /\ pc' = [pc EXCEPT ![c] = "rd_status"]
    /\ UNCHANGED <<env, lifeVars, uartVars, req, tid, l, sent, result, lastRead, lock, power, clock,
                   read_buf, read_idx, read_len, rx, ghostVars>>

\* a timeout that leaves the bus as it is
I2cReadTimeoutNoReset(c) ==
    /\ ~panic
    /\ pc[c] = "rd_wait"
    /\ done = 0
    /\ ReadReturns(c, "timeout", -1, ReadTimeoutRet)
    /\ UNCHANGED <<env, lifeVars, uartVars, req, tid, sent, result, devVars, ghostVars>>

\* wait_for_completion_timeout returns 0 after 5 s: reset, -ETIMEDOUT
I2cReadTimeout(c) ==
    /\ ~panic
    /\ pc[c] = "rd_wait"
    /\ done = 0
    /\ \E rr \in env.resets : Transport(c, <<ResetRec(rr)>>)
    /\ ReadReturns(c, "timeout", -1, ReadTimeoutRet)
    /\ UNCHANGED <<env, lifeVars, uartVars, req, tid, result, devVars, txn, gen, events, ev, reqs, mem, panic>>

\* the status poll after completion
I2cReadStatus(c) ==
    /\ ~panic
    /\ pc[c] = "rd_status"
    /\ \E s \in StatusAnswers :
         LET ret == StatusRet(s)
         IN  /\ clock' = IF s.ok THEN s.clock ELSE clock
             /\ IF ReadStatusRet(ret) = 0
                THEN Transport(c, <<StatusRec>>)
                ELSE \E rr \in env.resets : Transport(c, <<StatusRec, ResetRec(rr)>>)
             /\ ReadReturns(c, "status", IF s.ok THEN s.bus_status ELSE -1,
                             ReadStatusRet(ret))
    /\ UNCHANGED <<env, lifeVars, uartVars, req, tid, result, lock, power, read_buf, read_idx, read_len,
                   done, rx, txn, gen, events, ev, reqs, mem, panic>>

(***************************************************************************)
(* ft260_raw_event: the dispatcher of input reports                        *)
(***************************************************************************)
IsI2cReport(id) == id >= FT260_I2C_REPORT_MIN /\ id <= FT260_I2C_REPORT_MAX
IsUartReport(id) == id >= FT260_UART_REPORT_MIN /\ id <= FT260_UART_REPORT_MAX

\* the completion is signalled after an I2C data report
SignalsCompletion(idx, len) == idx = len

\* the rule ft260_raw_event applies to the report (id, length)
EventClassLengthFirst(id, length) ==
    IF length > FT260_RD_DATA_MAX THEN "bad"
    ELSE IF IsI2cReport(id) THEN "i2c"
    ELSE IF IsUartReport(id) THEN "uart"
    ELSE "unknown"

EventClass(id, length) ==
    IF IsI2cReport(id) THEN "i2c"
    ELSE IF length > FT260_RD_DATA_MAX THEN "bad"
    ELSE IF IsUartReport(id) THEN "uart"
    ELSE "unknown"

\* the device delivers the input report (id, length); tag names the read
\* request it answers (0: none)
RawEvent ==
    /\ ~panic
    /\ events < env.events
    /\ events' = events + 1
    /\ \E id \in env.ids, length \in env.lens, tag \in IF env.tagged /\ reqs # {} THEN reqs ELSE {0} :
         LET class == EventClass(id, length) IN
         CASE class = "i2c" ->
                /\ IF length > 0 /\ read_buf = NullBuf
                   THEN /\ panic' = TRUE
                        /\ UNCHANGED <<mem, read_idx, done>>
                   ELSE /\ panic' = FALSE
                        /\ mem' = IF length > 0
                                  THEN Append(mem, [buf |-> read_buf.buf,
                                                    off |-> read_buf.off + read_idx,
                                                    len |-> length, tag |-> tag])
                                  ELSE mem
                        /\ read_idx' = U16(read_idx + length)
                        /\ done' = IF SignalsCompletion(U16(read_idx + length), read_len)
                                   THEN done + 1 ELSE done
                /\ ev' = [id |-> id, length |-> length, ret |-> 1]
                /\ UNCHANGED rx
           [] class = "bad" ->
                /\ ev' = [id |-> id, length |-> length, ret |-> -EBADR]
                /\ UNCHANGED <<mem, read_idx, done, rx, panic>>
           [] class = "uart" ->
                /\ \E n \in {0, length} :
                     /\ rx' = rx + n
                     /\ ev' = [id |-> id, length |-> length, ret |-> n]
                /\ UNCHANGED <<mem, read_idx, done, panic>>
           [] OTHER ->
                /\ ev' = [id |-> id, length |-> length, ret |-> 0]
                /\ UNCHANGED <<mem, read_idx, done, rx, panic>>
    /\ UNCHANGED <<env, lifeVars, uartVars, callerVars, lock, power, clock, read_buf, read_len, txn, gen,
                   reqs, wire>>

(***************************************************************************)
(* The serial port: ft260_uart_write, ft260_uart_transmit_chars            *)
(***************************************************************************)
Writers == {1, 2}

\* the j-th byte of the buffer handed to the k-th write call
Byte(k, j) == <<k, j>>
Buf(k, n) == [j \in 1 .. n |-> Byte(k, j)]
ZeroByte == <<0, 0>>

\* s without its first k elements
Drop(s, k) == SubSeq(s, k + 1, Len(s))

\* port->xmit_fifo: the two free-running indices and the FIFO_SIZE bytes of
\* the ring; kfifo_alloc leaves both indices 0
Mask(i) == i % FIFO_SIZE
RingSlots == 0 .. FIFO_SIZE - 1
NewFifo == [in |-> 0, out |-> 0, data |-> [i \in RingSlots |-> ZeroByte]]

\* kfifo_len: in - out, as the int its callers keep it in (a negative value
\* stands for the unsigned one 2^32 above it)
kfifo_len(fifo) == fifo.in - fifo.out

\* the bytes between out and in, oldest first
Ring(fifo) == [j \in 1 .. kfifo_len(fifo) |-> fifo.data[Mask(fifo.out + j - 1)]]

\* kfifo_unused: size - (in - out) in unsigned arithmetic; it wraps to a
\* value above every count when in - out exceeds the size
kfifo_unused(fifo, count) ==
    IF kfifo_len(fifo) > FIFO_SIZE THEN count ELSE FIFO_SIZE - kfifo_len(fifo)

\* kfifo_copy_in: buf goes to the slots from in onwards, wrapping around
CopyIn(fifo, buf) ==
    [i \in RingSlots |->
       IF \E j \in 1 .. Len(buf) : Mask(fifo.in + j - 1) = i
       THEN buf[CHOOSE j \in 1 .. Len(buf) :
                  /\ Mask(fifo.in + j - 1) = i
                  /\ \A h \in 1 .. Len(buf) : Mask(fifo.in + h - 1) = i => h <= j]
       ELSE fifo.data[i]]

\* a ring that takes every byte and lets the newest overwrite the oldest
kfifo_in_all(fifo, buf) ==
    LET over == kfifo_len(fifo) + Len(buf) - FIFO_SIZE
    IN  [fifo |-> [in |-> fifo.in + Len(buf),
                   out |-> IF over > 0 THEN fifo.out + over ELSE fifo.out,
                   data |-> CopyIn(fifo, buf)],
         ret |-> Len(buf)]

\* kfifo_in: copies what fits and returns how much that was
kfifo_in(fifo, buf) ==
    LET m == Min(Len(buf), kfifo_unused(fifo, Len(buf)))
    IN  [fifo |-> [fifo EXCEPT !.in = @ + m, !.data = CopyIn(fifo, SubSeq(buf, 1, m))],
         ret |-> m]

\* kfifo_out: takes out up to n of the oldest bytes; in - out is compared
\* as the unsigned number it is
kfifo_out(fifo, n) ==
    LET k == IF kfifo_len(fifo) < 0 THEN n ELSE Min(n, kfifo_len(fifo))
    IN  [out |-> [j \in 1 .. k |-> fifo.data[Mask(fifo.out + j - 1)]],
         fifo |-> [fifo EXCEPT !.out = @ + k], ret |-> k]

\* kfifo_reset: both indices become 0; the bytes of the ring stay
kfifo_reset(fifo) == [fifo EXCEPT !.in = 0, !.out = 0]

ft260_uart_write_room == FIFO_SIZE - kfifo_len(xmit)
ft260_uart_chars_in_buffer == kfifo_len(xmit)

FT260_UART_DATA_REPORT_ID(len) == FT260_UART_REPORT_MIN + CDiv(len - 1, 4)

\* bytes stored at the start of the data area of write_buf
StoreData(data, bytes) == bytes \o Drop(data, Len(bytes))

NoULocals == [count |-> 0, ret |-> 0, free |-> 0, tty |-> FALSE, data_len |-> 0,
              len |-> 0, rc |-> 0, k |-> 0]

UGoto(w, p, locals) ==
    /\ upc' = [upc EXCEPT ![w] = p]
    /\ ul' = [ul EXCEPT ![w] = locals]

\* a run of ft260_uart_transmit_chars returns rc to writer w
Drained(w, how, woke) ==
    drains' = Append(drains, [w |-> ul[w].k, how |-> how,
                              room |-> FIFO_SIZE - kfifo_len(xmit), woke |-> woke])

\* writer w may enter ft260_uart_write
MayWrite(w) == upc[w] = "idle" /\ w \in uenv.writers /\ uwrites < uenv.writes

\* kfifo_in_locked of n bytes by w. torn: an unlocked kfifo_reset ran across
\* it, and the store of the new in index came last
Enqueue(w, n, torn) ==
    LET k == uwrites + 1
        in == kfifo_in(xmit, Buf(k, n))
    IN  /\ xmit' = IF torn THEN [in.fifo EXCEPT !.out = 0] ELSE in.fifo
        /\ accepted' = accepted \o SubSeq(Buf(k, n), 1, in.ret)
        /\ uwrites' = k
        /\ UGoto(w, "tx_begin", [NoULocals EXCEPT !.count = n, !.ret = in.ret,
                                   !.free = FIFO_SIZE - kfifo_len(xmit), !.k = k])

\* ft260_uart_write: the bytes that fit go into the ring under write_lock
UartWrite(w) ==
    /\ MayWrite(w)
    /\ \E n \in uenv.sizes : Enqueue(w, n, FALSE)
    /\ UNCHANGED <<i2cVars, lifeVars, uenv, write_buf, tx, termios, dequeued, uwire, drains, cfg>>

\* ft260_uart_transmit_chars: the tty reference and the length to drain
TransmitBegin(w) ==
    /\ upc[w] = "tx_begin"
    /\ \E tty \in uenv.ttys :
         LET data_len == kfifo_len(xmit)
         IN  IF ~tty \/ data_len = 0
             THEN /\ UGoto(w, "tx_ret", [ul[w] EXCEPT !.tty = tty, !.data_len = data_len,
                                                      !.rc = -EINVAL])
                  /\ Drained(w, "none", 0)
             ELSE /\ UGoto(w, "tx_fill", [ul[w] EXCEPT !.tty = tty, !.data_len = data_len])
                  /\ UNCHANGED drains
    /\ UNCHANGED <<i2cVars, lifeVars, uenv, xmit, write_buf, tx, termios, accepted, dequeued, uwire,
                   uwrites, cfg>>

\* the head of the loop: the report id and the length field
TransmitFill(w) ==
    /\ upc[w] = "tx_fill"
    /\ LET len == Min(ul[w].data_len, FT260_WR_DATA_MAX)
       IN  /\ write_buf' = [write_buf EXCEPT !.report = U8(FT260_UART_DATA_REPORT_ID(len)),
                                             !.length = U8(len)]
           /\ UGoto(w, "tx_out", [ul[w] EXCEPT !.len = len])
    /\ UNCHANGED <<i2cVars, lifeVars, uenv, xmit, tx, termios, portGhosts>>

\* w is about to call kfifo_out_locked with a length that fits the report
MayDequeue(w) == upc[w] = "tx_out" /\ ul[w].len >= 0

\* kfifo_out_locked into the report's data area. torn: an unlocked
\* kfifo_reset ran across it, and the store of the new out index came last
Dequeue(w, torn) ==
    LET o == kfifo_out(xmit, ul[w].len)
    IN  /\ xmit' = IF torn THEN [o.fifo EXCEPT !.in = 0] ELSE o.fifo
        /\ write_buf' = [write_buf EXCEPT !.data = StoreData(@, o.out)]
        /\ dequeued' = dequeued + o.ret
        /\ UGoto(w, "tx_send", [ul[w] EXCEPT !.len = o.ret])

\* the dequeue of the drain loop; a negative length, taken from indices
\* that a torn reset left behind, is a huge unsigned one and the copy runs
\* past the report buffer
TransmitOut(w) ==
    /\ upc[w] = "tx_out"
    /\ IF MayDequeue(w)
       THEN Dequeue(w, FALSE)
       ELSE /\ UGoto(w, "oops", ul[w])
            /\ UNCHANGED <<xmit, write_buf, dequeued>>
    /\ UNCHANGED <<i2cVars, lifeVars, uenv, tx, termios, accepted, uwire, drains, uwrites, cfg>>

\* ft260_hid_output_report of len + 2 bytes of write_buf, and the loop's end
TransmitSend(w) ==
    /\ upc[w] = "tx_send"
    /\ Len(uwire) < uenv.reports
    /\ \E rc \in uenv.sends :
         /\ uwire' = Append(uwire, [w |-> ul[w].k, report |-> write_buf.report,
                                    length |-> write_buf.length,
                                    data |-> SubSeq(write_buf.data, 1, ul[w].len),
                                    out |-> ul[w].len, rc |-> rc])
         /\ IF rc < 0
            THEN /\ UGoto(w, "tx_ret", [ul[w] EXCEPT !.rc = rc])
                 /\ Drained(w, "failed", 0)
                 /\ UNCHANGED tx
            ELSE /\ tx' = tx + ul[w].len
                 /\ UGoto(w, IF ul[w].data_len - ul[w].len > 0 THEN "tx_fill" ELSE "tx_wake",
                          [ul[w] EXCEPT !.data_len = @ - ul[w].len, !.rc = rc])
                 /\ UNCHANGED drains
    /\ UNCHANGED <<i2cVars, lifeVars, uenv, xmit, write_buf, termios, accepted, dequeued, uwrites, cfg>>

\* after the loop: tty_wakeup when more than the watermark is free
WakesUp(len) == FIFO_SIZE - len > TTY_WAKEUP_WATERMARK

TransmitWakeup(w) ==
    /\ upc[w] = "tx_wake"
    /\ LET len == kfifo_len(xmit)
       IN  /\ Drained(w, "sent", IF WakesUp(len) THEN 1 ELSE 0)
           /\ UGoto(w, "tx_ret", [ul[w] EXCEPT !.len = len, !.rc = 0])
    /\ UNCHANGED <<i2cVars, lifeVars, uenv, xmit, write_buf, tx, termios, accepted, dequeued, uwire,
                   uwrites, cfg>>

\* tty_out: ft260_uart_write returns what kfifo_in_locked accepted
UartWriteReturn(w) ==
    /\ upc[w] = "tx_ret"
    /\ UGoto(w, "done", ul[w])
    /\ UNCHANGED <<i2cVars, lifeVars, uenv, xmit, write_buf, tx, termios, portGhosts>>

\* the caller takes the result
UartDone(w) ==
    /\ upc[w] = "done"
    /\ UGoto(w, "idle", NoULocals)
    /\ UNCHANGED <<i2cVars, lifeVars, uenv, xmit, write_buf, tx, termios, portGhosts>>

(***************************************************************************)
(* The serial port: ft260_uart_set_termios, ft260_uart_change_speed        *)
(***************************************************************************)
\* the line settings of a struct ktermios: the CSIZE field as a number of
\* bits, four c_cflag bits, and the rate tty_termios_baud_rate finds in it
Termios(csize, cstopb, parenb, parodd, crtscts, baud) ==
    [csize |-> csize, cstopb |-> cstopb, parenb |-> parenb, parodd |-> parodd,
     crtscts |-> crtscts, baud |-> baud]

\* termios->c_cflag = CS8: every other bit of c_cflag is cleared with it
CflagCS8 == Termios(8, FALSE, FALSE, FALSE, FALSE, 0)

\* the switch on CSIZE: the termios it leaves
AfterCsize(t) == IF t.csize \in {5, 6} THEN CflagCS8 ELSE t

DataBit(t) == IF t.csize = 7 THEN FT260_CFG_DATA_BITS_7 ELSE FT260_CFG_DATA_BITS_8

StopBit(t) == IF t.cstopb THEN FT260_CFG_STOP_TWO_BIT ELSE FT260_CFG_STOP_ONE_BIT

Parity(t) ==
    IF t.parenb
    THEN (IF t.parodd THEN FT260_CFG_PAR_ODD ELSE FT260_CFG_PAR_EVEN)
    ELSE FT260_CFG_PAR_NO

tty_termios_baud_rate(t) == t.baud

BaudInvalid(baud) == baud = 0 \/ baud < FT260_CFG_BAUD_MIN \/ baud > FT260_CFG_BAUD_MAX

\* byte i (0 the lowest) of a 32-bit value
ByteOf(v, i) == (v \div (256 ^ i)) % 256

\* a 32-bit value as its four bytes, the lowest first
Bytes32(v) == [i \in 1 .. 4 |-> ByteOf(v, i - 1)]

swab32(b) == [i \in 1 .. 4 |-> b[5 - i]]

\* cpu_to_le32 on a host of the given byte order
Hosts == {"little", "big"}
cpu_to_le32(host, b) == IF host = "little" THEN b ELSE swab32(b)

\* put_unaligned_le32: the lowest byte of the value goes to the lowest address
put_unaligned_le32(b) == [i \in 1 .. 4 |-> b[i]]

\* the configuration request ft260_uart_change_speed builds from *termios
ChangeSpeedRequest(host, t) ==
    LET c == AfterCsize(t)
        b == tty_termios_baud_rate(c)
        baud == IF BaudInvalid(b) THEN DEFAULT_BAUD ELSE b
    IN  [report |-> FT260_SYSTEM_SETTINGS,
         request |-> FT260_SET_UART_CONFIG,
         flow_ctrl |-> FT260_CFG_FLOW_CTRL_NONE,
         baudrate |-> put_unaligned_le32(cpu_to_le32(host, Bytes32(baud))),
         data_bit |-> DataBit(t),
         parity |-> Parity(c),
         stop_bit |-> StopBit(c),
         breaking |-> FT260_CFG_BREAKING_NO]

\* *termios when ft260_uart_change_speed returns (tty_encode_baud_rate
\* stores the default rate when the one asked for was invalid)
ChangeSpeedTermios(t) ==
    LET c == AfterCsize(t)
    IN  IF BaudInvalid(tty_termios_baud_rate(c)) THEN [c EXCEPT !.baud = DEFAULT_BAUD] ELSE c

NoConfig == [n |-> 0, asked |-> CflagCS8, req |-> <<>>, rc |-> 0, by |-> "-"]

\* ft260_uart_set_termios: the tty layer has stored the settings asked for
\* in tty->termios; the request goes out as a feature report
UartSetTermios ==
    /\ cfg.n < uenv.configs
    /\ \E t \in uenv.lines, rc \in uenv.sets :
         /\ termios' = ChangeSpeedTermios(t)
         /\ cfg' = [n |-> cfg.n + 1, asked |-> t,
                    req |-> ChangeSpeedRequest(uenv.host, t), rc |-> rc, by |-> "set_termios"]
    /\ UNCHANGED <<i2cVars, lifeVars, uenv, upc, ul, xmit, write_buf, tx, accepted, dequeued, uwire,
                   drains, uwrites>>

\* ft260_uart_activate, on the first open of the port: kfifo_reset without
\* write_lock, then ft260_uart_change_speed with tty->termios, whose result
\* is dropped. The reset is two plain stores; when it runs across a locked
\* ring operation of a writer, whichever store of an index comes last stays
Activate ==
    /\ cfg.n < uenv.configs
    /\ \E rc \in uenv.sets :
         /\ termios' = ChangeSpeedTermios(termios)
         /\ cfg' = [n |-> cfg.n + 1, asked |-> termios,
                    req |-> ChangeSpeedRequest(uenv.host, termios), rc |-> rc,
                    by |-> "activate"]
    /\ \/ /\ xmit' = kfifo_reset(xmit)
          /\ UNCHANGED <<upc, ul, write_buf, accepted, dequeued, uwrites>>
       \/ /\ \E w \in Writers : MayDequeue(w) /\ Dequeue(w, TRUE)
          /\ UNCHANGED <<accepted, uwrites>>
       \/ /\ \E w \in Writers : MayWrite(w) /\ \E n \in uenv.sizes : Enqueue(w, n, TRUE)
          /\ UNCHANGED <<write_buf, dequeued>>
    /\ UNCHANGED <<i2cVars, lifeVars, uenv, tx, uwire, drains>>

\* the port after ft260_uart_probe and the first open
MkUenv(writers, sizes, ttys, sends, nwrites, nreports, lines, sets, nconfigs, host) ==
    [writers |-> writers, sizes |-> sizes, ttys |-> ttys, sends |-> sends, writes |-> nwrites,
     reports |-> nreports, lines |-> lines, sets |-> sets, configs |-> nconfigs,
     host |-> host]

UartInit(u) ==
    /\ uenv = u
    /\ upc = [w \in Writers |-> "idle"]
    /\ ul = [w \in Writers |-> NoULocals]
    /\ xmit = NewFifo
    /\ write_buf = [report |-> 0, length |-> 0,
                    data |-> [i \in 1 .. FT260_WR_DATA_MAX |-> ZeroByte]]
    /\ tx = 0
    /\ termios = CflagCS8
    /\ accepted = <<>>
    /\ dequeued = 0
    /\ uwire = <<>>
    /\ drains = <<>>
    /\ uwrites = 0
    /\ cfg = NoConfig

\* no serial traffic
EnvNoUart == MkUenv({}, {}, {}, {}, 0, 0, {}, {}, 0, "little")

(***************************************************************************)
(* Binding and unbinding: ft260_probe, ft260_uart_probe, ft260_i2c_probe,  *)
(* ft260_remove, and the table of serial ports                             *)
(***************************************************************************)
\* the HID interfaces the driver may be bound to: one more than the table holds
Devices == 1 .. UART_COUNT_MAX + 1
Slots == 0 .. UART_COUNT_MAX - 1

\* a device the driver is not bound to; its context, when a bind allocates
\* it, is zeroed (devm_kzalloc)
NoDevice ==
    [st |-> "unbound", drvdata |-> FALSE, serial |-> FALSE, index |-> 0, fifo |-> FALSE,
     tty |-> FALSE, adap |-> "none", sysfs |-> FALSE, dels |-> 0, open |-> FALSE, ret |-> 0]

LifeInit ==
    /\ ft260_uart_table = [i \in Slots |-> 0]
    /\ hdev = [d \in Devices |-> NoDevice]

\* what the calls of a bind may return
HidResults == {0, -EIO}
AllocResults == {0, -ENOMEM}

\* d's bind ends with return 0, or in ft260_probe's err_hid_close /
\* err_hid_stop, after which the context is freed with the device's resources
ProbeReturns(dev, ret) ==
    IF ret = 0
    THEN [dev EXCEPT !.st = "bound", !.ret = 0]
    ELSE [NoDevice EXCEPT !.ret = ret]

\* ft260_probe up to the choice between the two modes
Probe(d, ifaces) ==
    /\ hdev[d].st = "unbound"
    /\ \E r \in HidResults, iface \in ifaces :
         hdev' = [hdev EXCEPT ![d] =
                    IF r < 0 THEN [NoDevice EXCEPT !.ret = r]
                    ELSE IF iface <= FT260_IFACE_NONE
                    THEN ProbeReturns(NoDevice, iface)
                    ELSE [NoDevice EXCEPT !.st = IF iface = FT260_IFACE_UART
                                                  THEN "uart_probe" ELSE "i2c_probe",
                                          !.serial = (iface = FT260_IFACE_UART),
                                          !.drvdata = TRUE, !.open = TRUE]]
    /\ UNCHANGED <<i2cVars, uartVars, ft260_uart_table>>

\* the lowest free slot of the table, or UART_COUNT_MAX when none is free
FreeSlot(table) ==
    IF \E i \in Slots : table[i] = 0
    THEN CHOOSE i \in Slots : table[i] = 0 /\ \A j \in Slots : table[j] = 0 => i <= j
    ELSE UART_COUNT_MAX

\* an allocator that hands out slot 0 whoever holds it
ft260_uart_add_port_first(table, d, alloc) ==
    IF alloc # 0 THEN [table |-> table, index |-> 0, fifo |-> FALSE, ret |-> -ENOMEM]
    ELSE [table |-> [table EXCEPT ![0] = d], index |-> 0, fifo |-> TRUE, ret |-> 0]

\* ft260_uart_add_port: kfifo_alloc, then the first free slot under the lock
ft260_uart_add_port(table, d, alloc) ==
    IF alloc # 0 THEN [table |-> table, index |-> 0, fifo |-> FALSE, ret |-> -ENOMEM]
    ELSE LET index == FreeSlot(table)
         IN  IF index < UART_COUNT_MAX
             THEN [table |-> [table EXCEPT ![index] = d], index |-> index, fifo |-> TRUE,
                   ret |-> 0]
             ELSE [table |-> table, index |-> 0, fifo |-> TRUE, ret |-> -EBUSY]

\* ft260_uart_port_remove: the slot at port->index is emptied, the ring freed
ft260_uart_port_remove(table, index) == [table EXCEPT ![index] = 0]

\* ft260_uart_probe: tty_port_init and ft260_uart_add_port
UartAddPort(d) ==
    /\ hdev[d].st = "uart_probe"
    /\ \E alloc \in AllocResults :
         LET a == ft260_uart_add_port(ft260_uart_table, d, alloc)
             dev == [hdev[d] EXCEPT !.index = a.index, !.fifo = a.fifo]
         IN  /\ ft260_uart_table' = a.table
             /\ hdev' = [hdev EXCEPT ![d] = IF a.ret # 0 THEN ProbeReturns(dev, a.ret)
                                            ELSE [dev EXCEPT !.st = "uart_register"]]
    /\ UNCHANGED <<i2cVars, uartVars>>

\* ft260_uart_probe: tty_port_register_device_attr, the 9600-8-N-1 report,
\* and the two error labels
UartRegister(d) ==
    /\ hdev[d].st = "uart_register"
    /\ \E reg \in AllocResults, set \in HidResults :
         IF reg # 0 \/ set < 0
         THEN /\ ft260_uart_table' = ft260_uart_port_remove(ft260_uart_table, hdev[d].index)
              /\ hdev' = [hdev EXCEPT ![d] = ProbeReturns(@, IF reg # 0 THEN reg ELSE set)]
         ELSE /\ hdev' = [hdev EXCEPT ![d] = ProbeReturns([@ EXCEPT !.tty = TRUE], 0)]
              /\ UNCHANGED ft260_uart_table
    /\ UNCHANGED <<i2cVars, uartVars>>

\* i2c_del_adapter: an adapter that is registered is unregistered; for one
\* that is not, the call returns without doing anything
i2c_del_adapter(dev) ==
    [dev EXCEPT !.adap = IF @ = "registered" THEN "deleted" ELSE @, !.dels = @ + 1]

\* ft260_i2c_probe: the status read and i2c_add_adapter
I2cAddAdapter(d) ==
    /\ hdev[d].st = "i2c_probe"
    /\ \E add \in AllocResults :
         hdev' = [hdev EXCEPT ![d] = IF add # 0 THEN ProbeReturns(@, add)
                                     ELSE [@ EXCEPT !.st = "i2c_sysfs", !.adap = "registered"]]
    /\ UNCHANGED <<i2cVars, uartVars, ft260_uart_table>>

\* ft260_i2c_probe: sysfs_create_group, then the label err_i2c_free, which
\* is reached with and without goto
I2cCreateGroup(d) ==
    /\ hdev[d].st = "i2c_sysfs"
    /\ \E ret \in AllocResults :
         hdev' = [hdev EXCEPT ![d] =
                    ProbeReturns(i2c_del_adapter([@ EXCEPT !.sysfs = (ret = 0)]), ret)]
    /\ UNCHANGED <<i2cVars, uartVars, ft260_uart_table>>

\* what is left of an adapter when its context is freed: whether it is
\* still registered, and how often it was deleted
Unbound(dev) == [NoDevice EXCEPT !.adap = dev.adap, !.dels = dev.dels]

\* ft260_remove
Remove(d) ==
    /\ hdev[d].st = "bound"
    /\ IF ~hdev[d].drvdata
       THEN /\ hdev' = [hdev EXCEPT ![d] = NoDevice]
            /\ UNCHANGED ft260_uart_table
       ELSE IF hdev[d].serial
       THEN /\ ft260_uart_table' = ft260_uart_port_remove(ft260_uart_table, hdev[d].index)
            /\ hdev' = [hdev EXCEPT ![d] = NoDevice]
       ELSE /\ hdev' = [hdev EXCEPT ![d] = Unbound(i2c_del_adapter(@))]
            /\ UNCHANGED ft260_uart_table
    /\ UNCHANGED <<i2cVars, uartVars>>

(***************************************************************************)
(* Workloads and environments                                              *)
(***************************************************************************)
Statuses == {FT260_I2C_STATUS_CTRL_IDLE, FT260_I2C_STATUS_CTRL_BUSY,
             FT260_I2C_STATUS_BUS_BUSY, FT260_I2C_STATUS_ERROR}
Clocks == {100}
ReportIds == {FT260_I2C_REPORT_MIN, FT260_UART_REPORT_MIN, FT260_I2C_READ_REQ}

\* an environment: who calls, with what arguments, and what the transport
\* and the device may answer
MkEnv(callers, requests, sends, powers, resets, statuses, ids, lens, tagged, ncalls, nevents) ==
    [callers |-> callers, requests |-> requests, sends |-> sends,
     powers |-> powers, resets |-> resets, statuses |-> statuses,
     clocks |-> Clocks, ids |-> ids, lens |-> lens, tagged |-> tagged,
     calls |-> ncalls, events |-> nevents]

\* two threads share the adapter
ConcurrentRequests ==
    {I2cReq(1, FALSE, 1, 0), I2cReq(1, TRUE, 1, 0), SmbusReq("r", "BYTE_DATA", 0)}
EnvConcurrent ==
    MkEnv({1, 2}, ConcurrentRequests, {1, -EIO}, PowerResults, {1},
          {FT260_I2C_STATUS_CTRL_IDLE, FT260_I2C_STATUS_CTRL_BUSY},
          {FT260_I2C_REPORT_MIN}, {1}, FALSE, ConcCalls, ConcEvents)

\* the device context after ft260_probe bound the device in I2C mode: the
\* clock is what ft260_i2c_probe's status read left (0 when it failed)
I2cInit(e) ==
    /\ env = e
    /\ pc = [c \in Callers |-> "idle"]
    /\ req = [c \in Callers |-> NoReq]
    /\ tid = [c \in Callers |-> 0]
    /\ l = [c \in Callers |-> NoLocals]
    /\ sent = [c \in Callers |-> <<>>]
    /\ result = [c \in Callers |-> 0]
    /\ lastRead = [c \in Callers |-> NoRead]
    /\ lock = 0
    /\ power = 0
    /\ clock \in {0} \cup e.clocks
    /\ read_buf = NullBuf
    /\ read_idx = 0
    /\ read_len = 0
    /\ done = 0
    /\ rx = 0
    /\ txn = 0
    /\ gen = 0
    /\ events = 0
    /\ ev = NoEvent
    /\ reqs = {}
    /\ wire = <<>>
    /\ mem = <<>>
    /\ panic = FALSE

InitWith(e) == I2cInit(e) /\ UartInit(EnvNoUart) /\ LifeInit

\* a device bound in UART mode: no caller of the I2C adapter, no input
\* report, and the clock kzalloc left
EnvNoI2c == [MkEnv({}, {}, {}, {}, {}, {}, {}, {}, FALSE, 0, 0) EXCEPT !.clocks = {}]
UartInitWith(u) == I2cInit(EnvNoI2c) /\ UartInit(u) /\ LifeInit

\* the read path
ReadStep(c) ==
    \/ I2cReadStart(c)
    \/ I2cReadArm(c)
    \/ I2cReadSend(c)
    \/ I2cReadComplete(c)
    \/ I2cReadTimeout(c)
    \/ I2cReadStatus(c)

\* entry and exit of a call
CallStep(c) ==
    \/ Call(c)
    \/ MutexLock(c)
    \/ PowerOn(c)
    \/ Exit(c)
    \/ Unlock(c)
    \/ Return(c)

\* the write path
WritePath(c) ==
    \/ I2cWriteSend(c)
    \/ SmbusWriteSend(c)
    \/ Poll(c)

(***************************************************************************)
(* Spec: two threads call into the adapter concurrently                    *)
(***************************************************************************)
Init == InitWith(EnvConcurrent)

Next ==
    \/ \E c \in Callers : CallStep(c) \/ WritePath(c) \/ ReadStep(c)
    \/ RawEvent

Spec == Init /\ [][Next]_vars

(***************************************************************************)
(* SpecWrite: one thread writes; every transport call may fail             *)
(***************************************************************************)
WriteCalls == 1

WriteRequests ==
    {I2cReq(1, FALSE, n, 0) : n \in {0, 1, 59, 60, 61, 120, 121}}
    \cup {SmbusReq("w", size, 2) : size \in SmbusSizes \ {"PROC_CALL"}}
    \cup {SmbusReq("w", "I2C_BLOCK_DATA", n) : n \in {58, 59, 60}}

EnvWrite ==
    MkEnv({1}, WriteRequests, SendResults, PowerResults, ResetResults, Statuses,
          {}, {}, FALSE, WriteCalls, 0)

InitWrite == InitWith(EnvWrite)

NextWrite == CallStep(1) \/ WritePath(1)

SpecWrite == InitWrite /\ [][NextWrite]_vars

(***************************************************************************)
(* SpecStatus: one thread writes one byte; the device answers the status   *)
(* poll with any bus_status byte                                           *)
(***************************************************************************)
StatusCalls == 1

AllStatuses == 0..255

EnvStatus ==
    MkEnv({1}, {I2cReq(1, FALSE, 1, 0), SmbusReq("w", "BYTE", 0)}, {1},
          {0}, {1}, AllStatuses, {}, {}, FALSE, StatusCalls, 0)

InitStatus == InitWith(EnvStatus)

SpecStatus == InitStatus /\ [][NextWrite]_vars

(***************************************************************************)
(* SpecRead: one thread reads, twice; the device delivers input reports    *)
(* of any length at any moment, for the current or an earlier request      *)
(***************************************************************************)
ReadCalls == 2
ReadEvents == 2

ReadRequests == {I2cReq(1, TRUE, n, 0) : n \in {0, 1, 2, 61}}

EnvRead ==
    MkEnv({1}, ReadRequests, {1, -EIO}, {0}, ResetResults,
          {FT260_I2C_STATUS_CTRL_IDLE, FT260_I2C_STATUS_ERROR},
          {FT260_I2C_REPORT_MIN, FT260_I2C_READ_REQ}, {0, 1, 2}, TRUE,
          ReadCalls, ReadEvents)

InitRead == InitWith(EnvRead)

NextRead == CallStep(1) \/ ReadStep(1) \/ RawEvent

SpecRead == InitRead /\ [][NextRead]_vars

(***************************************************************************)
(* SpecReadStatus: one thread reads one byte; the device answers the       *)
(* status poll after completion with any bus_status byte                   *)
(***************************************************************************)
ReadStatusCalls == 1
ReadStatusEvents == 1

EnvReadStatus ==
    MkEnv({1}, {I2cReq(1, TRUE, 1, 0)}, {1}, {0}, ResetResults, AllStatuses,
          {FT260_I2C_REPORT_MIN}, {1}, TRUE, ReadStatusCalls, ReadStatusEvents)

InitReadStatus == InitWith(EnvReadStatus)

SpecReadStatus == InitReadStatus /\ [][NextRead]_vars

(***************************************************************************)
(* SpecXfer: one thread makes any one call of the adapter's interface      *)
(***************************************************************************)
XferCalls == 1
XferEvents == 1

XferRequests ==
    {I2cReq(1, rd, n, 0) : rd \in BOOLEAN, n \in {0, 1, 2, 61}}
    \cup {I2cReq(2, FALSE, n, m) : n \in {0, 1, 2, 3}, m \in {1, 2}}
    \cup {SmbusReq(rw, size, n) : rw \in {"r", "w"}, size \in SmbusSizes, n \in {1, 2}}
    \cup {SmbusReq(rw, size, n) : rw \in {"r", "w"},
                                  size \in {"BLOCK_DATA", "I2C_BLOCK_DATA"},
                                  n \in {58, 59, 60, 61, 255}}

EnvXfer ==
    MkEnv({1}, XferRequests, {1, -EIO}, PowerResults, {1},
          {FT260_I2C_STATUS_CTRL_IDLE, FT260_I2C_STATUS_ERROR},
          {FT260_I2C_REPORT_MIN}, {1, 2, 3}, FALSE, XferCalls, XferEvents)

InitXfer == InitWith(EnvXfer)

NextXfer == CallStep(1) \/ WritePath(1) \/ ReadStep(1) \/ RawEvent

SpecXfer == InitXfer /\ [][NextXfer]_vars

\* One writer on a serial port: writes of 130 and 300 bytes, one after the
\* other, a transport that may fail, a tty that may be gone
UartWrites == 2
UartReports == 8
EnvUart == MkUenv({1}, {130, 300}, {TRUE, FALSE}, {1, -EIO}, UartWrites, UartReports, {}, {}, 0, "little")
InitUart == UartInitWith(EnvUart)
WriterStep(w) ==
    \/ UartWrite(w)
    \/ TransmitBegin(w)
    \/ TransmitFill(w)
    \/ TransmitOut(w)
    \/ TransmitSend(w)
    \/ TransmitWakeup(w)
    \/ UartWriteReturn(w)
    \/ UartDone(w)
NextUart == \E w \in Writers : WriterStep(w)
SpecUart == InitUart /\ [][NextUart]_vars

\* Two writers on one serial port, their steps interleaved: writes of 1 and
\* 61 bytes, a transport that does not fail
RaceWrites == 2
RaceReports == 4
EnvRace == MkUenv({1, 2}, {1, 61}, {TRUE}, {1}, RaceWrites, RaceReports, {}, {}, 0, "little")
InitRace == UartInitWith(EnvRace)
SpecRace == InitRace /\ [][NextUart]_vars

\* Line settings: every word length, stop bit, parity and flow control
\* setting with rates at and around the limits, on hosts of either byte order
LineConfigs == 1
Bauds == {0, FT260_CFG_BAUD_MIN - 1, FT260_CFG_BAUD_MIN, DEFAULT_BAUD, 115200,
          FT260_CFG_BAUD_MAX, FT260_CFG_BAUD_MAX + 1}
Lines ==
    {Termios(cs, sb, pe, po, fc, b) :
       cs \in 5 .. 8, sb \in BOOLEAN, pe \in BOOLEAN, po \in BOOLEAN, fc \in BOOLEAN, b \in Bauds}
EnvLine(host) == MkUenv({}, {}, {}, {}, 0, 0, Lines, {1, -EIO}, LineConfigs, host)
InitLine == \E host \in Hosts : UartInitWith(EnvLine(host))
NextLine == UartSetTermios
SpecLine == InitLine /\ [][NextLine]_vars

\* The dispatcher: one read of 2 bytes and input reports with ids at and
\* around the limits of the I2C and UART ranges, of every kind of length
DispatchCalls == 1
DispatchEvents == 2
DispatchIds ==
    {FT260_I2C_READ_REQ, FT260_I2C_REPORT_MIN - 1, FT260_I2C_REPORT_MIN, FT260_I2C_REPORT_MAX,
     FT260_I2C_REPORT_MAX + 1, FT260_UART_REPORT_MIN - 1, FT260_UART_REPORT_MIN,
     FT260_UART_REPORT_MAX, FT260_UART_REPORT_MAX + 1}
DispatchLens == {0, 1, FT260_RD_DATA_MAX, FT260_RD_DATA_MAX + 1, 255}
EnvDispatch ==
    MkEnv({1}, {I2cReq(1, TRUE, 2, 0)}, {1}, {0}, {1}, {FT260_I2C_STATUS_CTRL_IDLE},
          DispatchIds, DispatchLens, FALSE, DispatchCalls, DispatchEvents)
InitDispatch == InitWith(EnvDispatch)
SpecDispatch == InitDispatch /\ [][NextRead]_vars

(***************************************************************************)
(* SpecLive: the two threads of Spec under a fair scheduler: a thread that *)
(* can take a step of its call eventually takes one (transport calls       *)
(* return, the read timeout fires, the mutex is handed over)               *)
(***************************************************************************)
CallerStep(c) == CallStep(c) \/ WritePath(c) \/ ReadStep(c)

Fairness == \A c \in Callers : WF_vars(CallerStep(c))

SpecLive == Spec /\ Fairness

(***************************************************************************)
(* SpecPorts: five interfaces in UART mode are bound and unbound, in any   *)
(* order and concurrently; every call of a bind may fail                   *)
(***************************************************************************)
InitLife == I2cInit(EnvNoI2c) /\ UartInit(EnvNoUart) /\ LifeInit

NextPorts ==
    \E d \in Devices :
      \/ Probe(d, {FT260_IFACE_UART})
      \/ UartAddPort(d)
      \/ UartRegister(d)
      \/ Remove(d)

SpecPorts == InitLife /\ [][NextPorts]_vars

(***************************************************************************)
(* SpecAdapter: interfaces in I2C mode, or in a mode the driver does not   *)
(* know, are bound and unbound                                             *)
(***************************************************************************)
AdapterCount == 3
AdapterDevices == 1 .. AdapterCount

NextAdapter ==
    \E d \in AdapterDevices :
      \/ Probe(d, {-EIO, FT260_IFACE_NONE, FT260_IFACE_I2C})
      \/ I2cAddAdapter(d)
      \/ I2cCreateGroup(d)
      \/ Remove(d)

SpecAdapter == InitLife /\ [][NextAdapter]_vars

(***************************************************************************)
(* SpecOpen: the port is opened while the line discipline echoes received  *)
(* characters through ft260_uart_write, and opened again after a close     *)
(***************************************************************************)
OpenWrites == 2
OpenReports == 3
OpenConfigs == 2

OpenLines == {Termios(8, FALSE, FALSE, FALSE, FALSE, 115200), Termios(7, TRUE, TRUE, FALSE, TRUE, 0)}

EnvOpen ==
    MkUenv({1}, {1, 61}, {TRUE}, {1}, OpenWrites, OpenReports, OpenLines, {1, -EIO},
           OpenConfigs, "little")

InitOpen == UartInitWith(EnvOpen)

NextOpen == WriterStep(1) \/ Activate \/ UartSetTermios

SpecOpen == InitOpen /\ [][NextOpen]_vars

(***************************************************************************)
(* SpecChunk: one thread makes a write-then-read transfer whose read is    *)
(* longer than one report; the device answers with reports of 1 or 60      *)
(* bytes                                                                   *)
(***************************************************************************)
ChunkCalls == 1
ChunkEvents == 3

ChunkRequests == {I2cReq(2, FALSE, n, m) : n \in {1, 2}, m \in {61, 121}}

EnvChunk ==
    MkEnv({1}, ChunkRequests, {1, -EIO}, {0}, {1}, {FT260_I2C_STATUS_CTRL_IDLE},
          {FT260_I2C_REPORT_MIN}, {1, FT260_RD_DATA_MAX}, FALSE, ChunkCalls, ChunkEvents)

InitChunk == InitWith(EnvChunk)

NextChunk == CallStep(1) \/ I2cWriteSend(1) \/ Poll(1) \/ ReadStep(1) \/ RawEvent

SpecChunk == InitChunk /\ [][NextChunk]_vars

(***************************************************************************)
(* Properties                                                              *)
(***************************************************************************)
\* the reports of kind k among the transport calls of c's call, in order
Recs(c, k) == SelectSeq(sent[c], LAMBDA r : r.k = k)

RECURSIVE Flatten(_)
\* the payloads of a sequence of reports, concatenated
Flatten(rs) == IF rs = <<>> THEN <<>> ELSE Head(rs).data \o Flatten(Tail(rs))

Last(s) == s[Len(s)]

\* c's call has returned v from a plain I2C write of its one message
WriteReturned(c) ==
    pc[c] = "done" /\ req[c].op = "i2c" /\ req[c].num = 1 /\ ~req[c].rd

\* the shape of the write reports of a successful write of L bytes, but for
\* their number
FragmentsCarry(c, L) ==
    LET w == Recs(c, "wr")
    IN  /\ \A i \in 1..Len(w) :
             /\ w[i].length = Len(w[i].data)
             /\ w[i].report = 208 + (IF w[i].length = 0 THEN 0
                                     ELSE (w[i].length - 1) \div 4)
             /\ i < Len(w) => w[i].length = 60
             /\ w[i].length <= 60
        /\ Flatten(w) = MsgData(L)
        /\ L = 60 => Len(w) = 1
        /\ L = 61 => Len(w) = 2 /\ w[1].length = 60 /\ w[2].length = 1

\* C1 as stated: a write of L bytes whose status checks all succeed has sent
\* exactly ceil(L/60) write reports, each with id 0xD0 + (chunk-1)/4 and its
\* chunk length, the chunks together being the payload.
C1_AsStated ==
    (WriteReturned(1) /\ result[1] >= 0) =>
        /\ Len(Recs(1, "wr")) = (req[1].len0 + 59) \div 60
        /\ FragmentsCarry(1, req[1].len0)

\* C1, corrected: a write of L >= 1 bytes whose status checks all succeed has
\* sent exactly ceil(L/60) write reports, and a write of 0 bytes exactly one
\* report with an empty payload; each report has id 0xD0 + (chunk-1)/4 (0xD0
\* for the empty one) and its chunk length, the chunks in order are the
\* payload, 60 bytes go in one report and 61 in two (60 then 1).
C1_Fragments ==
    (WriteReturned(1) /\ result[1] >= 0) =>
        /\ Len(Recs(1, "wr")) = IF req[1].len0 = 0 THEN 1
                                ELSE (req[1].len0 + 59) \div 60
        /\ FragmentsCarry(1, req[1].len0)

\* a write of 121 bytes has returned success after three reports
C1_Witness ==
    /\ WriteReturned(1) /\ result[1] >= 0
    /\ req[1].len0 = 121
    /\ Len(Recs(1, "wr")) = 3

\* c is between the acquisition and the release of dev->lock
InCS(c) == pc[c] \notin {"idle", "lock", "done"}

\* C2: of two concurrent callers at most one is between lock acquisition and
\* release, and it is the lock's owner; a caller waiting for the lock has
\* sent nothing; the traffic on the transport is one call's reports after
\* another's, no call's reports coming back after another call's.
C2_MutualExclusion ==
    /\ \A c, d \in Callers : InCS(c) /\ InCS(d) => c = d
    /\ \A c \in Callers : InCS(c) => lock = c
    /\ \A c \in Callers : pc[c] = "lock" => sent[c] = <<>>
    /\ \A c, d \in Callers :
         (c # d /\ InCS(c) /\ sent[d] # <<>>) => pc[d] = "done"
    /\ \A i, j \in 1..Len(wire) : wire[i] = wire[j] => i = j

\* one caller waits for the lock while the other, holding it, has sent reports
C2_Witness ==
    \E c, d \in Callers :
        /\ pc[c] = "lock"
        /\ InCS(d) /\ Len(sent[d]) >= 2
        /\ wire # <<>>

RECURSIVE Delivered(_)
\* the number of bytes a sequence of the dispatcher's copies holds
Delivered(ws) == IF ws = <<>> THEN 0 ELSE Head(ws).len + Delivered(Tail(ws))

\* the copies made during the read r are answers to r's request, land in
\* r's destination at consecutive offsets from 0, and hold r.len bytes
DeliveredExactly(r) ==
    /\ \A i \in 1..Len(r.writes) :
         /\ r.writes[i].tag = r.gen
         /\ r.writes[i].buf = r.dst.buf
         /\ r.writes[i].off = r.dst.off + Delivered(SubSeq(r.writes, 1, i - 1))
    /\ Delivered(r.writes) = r.len

\* C3 as stated: a read of L <= 60 bytes returns success only after the
\* dispatcher has delivered exactly L bytes of I2C data reports for this read
\* into its destination, in arrival order at consecutive offsets from 0.
C3_AsStated ==
    \A c \in Callers :
        (lastRead[c].how = "status" /\ lastRead[c].ret = 0) =>
            DeliveredExactly(lastRead[c])

\* C4: a read whose wait expired has sent exactly one bus reset, as its last
\* transport call, and exactly one read request (no retry), has polled no
\* status, and returns -ETIMEDOUT, which is what the caller gets.
C4_Timeout ==
    \A c \in Callers :
        lastRead[c].how = "timeout" =>
            /\ lastRead[c].ret = -ETIMEDOUT
            /\ Len(Recs(c, "reset")) = 1
            /\ Last(sent[c]).k = "reset"
            /\ Len(Recs(c, "rdreq")) = 1
            /\ Recs(c, "status") = <<>>
            /\ pc[c] = "done" => result[c] = -ETIMEDOUT

\* a read has timed out and returned to its caller, although a report arrived
C4_Witness ==
    /\ lastRead[1].how = "timeout"
    /\ pc[1] = "done"
    /\ result[1] = -ETIMEDOUT
    /\ events > 0

AllStatus(c, i, j) == \A n \in i..j : sent[c][n].k = "status"

\* what the status check has done so far in c's call, whatever it returns:
\* at most 3 polls in a row, each after a write report or a poll; a poll
\* follows a poll only after a CTRL_BUSY answer; a report that could not be
\* sent, a status that could not be fetched, a failure status and a third
\* CTRL_BUSY answer are each followed by one bus reset, after which the call
\* sends nothing, whatever the reset returned.
CheckedSoFar(c) ==
    LET s == sent[c]
        busy == l[c].st >= 0 /\ BitSet(l[c].st, FT260_I2C_STATUS_CTRL_BUSY)
    IN  /\ \A i \in 1..Len(s) :
             /\ (i + 3 <= Len(s)) => ~AllStatus(c, i, i + 3)
             /\ s[i].k = "status" => i > 1 /\ s[i - 1].k \in {"wr", "status"}
             /\ s[i].k = "reset" => i = Len(s) /\ i > 1
             /\ (s[i].k = "wr" /\ s[i].rc < 0) =>
                    i + 1 = Len(s) /\ s[i + 1].k = "reset"
        /\ Len(Recs(c, "reset")) <= 1
        /\ (pc[c] = "poll" /\ s # <<>> /\ Last(s).k = "status") =>
               l[c].chk = "retry" /\ busy /\ l[c].try \in 1..2
        /\ l[c].chk = "retry" => busy
        /\ (l[c].chk # "-" /\ busy) => (l[c].chk = "fail" <=> l[c].try = 0)
        /\ (l[c].chk # "-" /\ busy) => l[c].chk # "ok"
        /\ (l[c].chk # "-" /\ l[c].st < 0) => l[c].chk = "fail"
        /\ l[c].chk = "fail" => s # <<>> /\ Last(s).k = "reset"
        /\ (l[c].chk = "ok" /\ s # <<>>) => Last(s).k # "reset"

\* c's call has returned after its status check failed
CheckFailed(c) == pc[c] = "done" /\ Recs(c, "reset") # <<>>

\* C5 as stated: at most 3 status polls, a new poll only after CTRL_BUSY,
\* and every failing outcome sends exactly one bus reset, not retried, and
\* returns -EIO.
C5_AsStated ==
    /\ CheckedSoFar(1)
    /\ CheckFailed(1) => result[1] = -EIO

\* C5, corrected: at most 3 status polls, a new poll only after CTRL_BUSY,
\* and every failing outcome sends exactly one bus reset, not retried; the
\* call returns -EIO when the status could not be fetched, was a failure
\* status or was CTRL_BUSY three times, and the transport's own error code
\* when the output report could not be sent.
C5_CheckStatus ==
    /\ CheckedSoFar(1)
    /\ CheckFailed(1) =>
         LET before == sent[1][Len(sent[1]) - 1]
         IN  result[1] = IF before.k = "wr" THEN before.rc ELSE -EIO

\* the output report could not be sent for lack of memory: one reset, which
\* failed too, and the caller gets -ENOMEM
C5_Witness ==
    /\ CheckFailed(1)
    /\ Len(sent[1]) = 2
    /\ sent[1][1].k = "wr" /\ sent[1][1].rc = -ENOMEM
    /\ sent[1][2].k = "reset" /\ sent[1][2].rc < 0
    /\ result[1] = -ENOMEM

\* the bits beside the busy and idle ones that report a failure
ErrorBits(st) ==
    \/ BitSet(st, FT260_I2C_STATUS_ERROR)
    \/ BitSet(st, FT260_I2C_STATUS_ADDR_NO_ACK)
    \/ BitSet(st, FT260_I2C_STATUS_DATA_NO_ACK)
    \/ BitSet(st, FT260_I2C_STATUS_ARBITR_LOST)

\* C6 as stated, each rule applied where no other rule of the claim speaks
\* against it: after a status poll of the write check that read bus_status
\* st, CTRL_BUSY set means another poll (or, at the third, failure);
\* BUS_BUSY set without CTRL_BUSY and without an error bit is accepted;
\* any of ERROR, ADDR_NO_ACK, DATA_NO_ACK, ARBITR_LOST set without CTRL_BUSY
\* and BUS_BUSY is a failure; CTRL_IDLE alone is success.
C6_AsStated ==
    LET st == l[1].st
        chk == l[1].chk
        busy == BitSet(st, FT260_I2C_STATUS_CTRL_BUSY)
        bus == BitSet(st, FT260_I2C_STATUS_BUS_BUSY)
    IN  (chk # "-" /\ st >= 0) =>
            /\ busy => chk = (IF l[1].try > 0 THEN "retry" ELSE "fail")
            /\ (~busy /\ bus /\ ~ErrorBits(st)) => chk = "ok"
            /\ (~busy /\ ~bus /\ ErrorBits(st)) => chk = "fail"
            /\ st = FT260_I2C_STATUS_CTRL_IDLE => chk = "ok"

\* c's call is a plain I2C write of its one message
IsWrite(c) == req[c].op = "i2c" /\ req[c].num = 1 /\ ~req[c].rd

\* C7: in an I2C write, once the send or the status check of a fragment has
\* failed a bus reset has been sent for it, no fragment is sent after it and
\* the write returns an error to the caller.
C7_Abort ==
    \A c \in Callers :
        IsWrite(c) =>
            LET s == sent[c]
                failed == \/ \E i \in 1..Len(s) : s[i].k = "wr" /\ s[i].rc < 0
                          \/ l[c].chk = "fail"
            IN  /\ failed =>
                     /\ Last(s).k = "reset"
                     /\ Len(Recs(c, "reset")) = 1
                     /\ pc[c] \in {"exit", "unlock", "done"}
                     /\ pc[c] \in {"exit", "unlock"} => l[c].ret < 0
                     /\ pc[c] = "done" => result[c] < 0
                /\ \A i \in 1..Len(s) :
                     s[i].k = "reset" =>
                         /\ i = Len(s)
                         /\ failed
                /\ (pc[c] = "done" /\ result[c] >= 0) => ~failed

\* a write of 121 bytes was given up at its second fragment
C7_Witness ==
    /\ IsWrite(1) /\ req[1].len0 = 121
    /\ pc[1] = "done" /\ result[1] < 0
    /\ Len(Recs(1, "wr")) = 2
    /\ Last(sent[1]).k = "reset"

\* C9 as stated: a call that returned -EINVAL or -EOPNOTSUPP has sent no
\* output report and no feature report.
C9_AsStated ==
    \A c \in Callers :
        (pc[c] = "done" /\ result[c] \in {-EINVAL, -EOPNOTSUPP}) => sent[c] = <<>>

\* C10: ft260_i2c_xfer with one message sends it as write reports or as one
\* read request, per its direction, with flag START_STOP; with two messages
\* it sends the first message's bytes (at most 2) as a write with flag START
\* and a read request with flag START_STOP only after that write's status
\* check has passed, nothing after a failure; when it succeeds it returns
\* the number of messages.
C10_Transfer ==
    \A c \in Callers :
        req[c].op = "i2c" /\ req[c].num > 0 =>
            LET s == sent[c]
                w == Recs(c, "wr")
                r == Recs(c, "rdreq")
            IN  /\ (req[c].num = 1 /\ ~req[c].rd) =>
                     /\ r = <<>>
                     /\ \A i \in 1..Len(w) : w[i].flag = 6
                /\ (req[c].num = 1 /\ req[c].rd) =>
                     /\ w = <<>>
                     /\ Len(r) <= 1
                     /\ \A i \in 1..Len(r) : r[i].flag = 6 /\ r[i].length = req[c].len0
                /\ req[c].num = 2 =>
                     /\ s # <<>> => req[c].len0 <= 2 /\ s[1].k = "wr"
                     /\ \A i \in 1..Len(w) : w[i].flag = 2 /\ w[i].length = req[c].len0
                     /\ w # <<>> => w[1].data = MsgData(req[c].len0)
                     /\ \A i \in 1..Len(r) : r[i].flag = 6
                     /\ \A i \in 1..Len(s) :
                          s[i].k = "rdreq" =>
                              /\ i >= 3
                              /\ s[i - 1].k = "status"
                              /\ \E j \in 1..(i - 1) : s[j].k = "wr" /\ s[j].rc >= 0
                              /\ \A j \in 1..(i - 1) : s[j].k # "reset" /\ s[j].rc >= 0
                /\ \A i \in 1..Len(s) : s[i].k = "reset" => i = Len(s)
                /\ (pc[c] = "done" /\ result[c] >= 0) =>
                     /\ result[c] = req[c].num
                     /\ Recs(c, "reset") = <<>>
                     /\ req[c].num = 2 => w # <<>> /\ r # <<>>

\* a two-message transfer has returned 2 after one offset write and one read
C10_Witness ==
    /\ pc[1] = "done"
    /\ req[1].op = "i2c" /\ req[1].num = 2 /\ req[1].len0 = 2
    /\ result[1] = 2
    /\ Len(Recs(1, "wr")) = 1 /\ Len(Recs(1, "rdreq")) = 1

\* c's call is an SMBus read of the size class size
IsSmbusRead(c, size) == req[c].op = "smbus" /\ req[c].rw = "r" /\ req[c].size = size

\* the copies of the read r all went to r's buffer (made while the
\* descriptor pointed at it) and hold as many bytes as r asked for
OnlyOwnBytes(r) ==
    /\ \A i \in 1..Len(r.writes) : r.writes[i].buf = r.dst.buf
    /\ Delivered(r.writes) = r.len

\* the copies of the read r lie one after another from r's destination on
InOrderFrom(r) ==
    \A i \in 1..Len(r.writes) :
        r.writes[i].off = r.dst.off + Delivered(SubSeq(r.writes, 1, i - 1))

\* C11: an SMBus BlockData read with block[0] = n sends first exactly one
\* write report with payload [cmd] and flag START, then at most one read
\* request, of n+1 bytes with flag START_STOP_REPEATED, whose destination is
\* block[0]; an I2cBlockData read asks for n bytes into block[1..]; when the
\* read succeeds on the bytes it asked for, they lie in order from that
\* destination on (block[0..n], or block[1..n]).
C11_BlockRead ==
    \A c \in Callers :
        (IsSmbusRead(c, "BLOCK_DATA") \/ IsSmbusRead(c, "I2C_BLOCK_DATA")) =>
            LET s == sent[c]
                n == req[c].block0
                want == IF req[c].size = "BLOCK_DATA" THEN n + 1 ELSE n
                first == IF req[c].size = "BLOCK_DATA" THEN 0 ELSE 1
                r == lastRead[c]
            IN  /\ s # <<>> =>
                     /\ s[1].k = "wr" /\ s[1].flag = 2
                     /\ s[1].data = <<SmbusCmd>> /\ s[1].length = 1
                /\ Len(Recs(c, "wr")) <= 1
                /\ Len(Recs(c, "rdreq")) <= 1
                /\ \A i \in 1..Len(s) :
                     s[i].k = "rdreq" =>
                         /\ s[i].flag = 7 /\ s[i].length = want
                         /\ i >= 3 /\ s[1].rc >= 0 /\ s[i - 1].k = "status"
                /\ pc[c] \in {"rd_start", "rd_arm", "rd_send", "rd_wait", "rd_status"} =>
                     /\ l[c].rdst = [buf |-> tid[c], off |-> first]
                     /\ l[c].rlen = want
                /\ r.how \in {"send", "timeout", "status"} =>
                     /\ r.dst = [buf |-> tid[c], off |-> first]
                     /\ r.len = want
                /\ (r.how = "status" /\ r.ret = 0 /\ OnlyOwnBytes(r)) =>
                     /\ InOrderFrom(r)
                     /\ pc[c] = "done" => result[c] = 0

\* a BlockData read with block[0] = 2 has succeeded with block[0..2] filled
C11_Witness ==
    /\ IsSmbusRead(1, "BLOCK_DATA") /\ req[1].block0 = 2
    /\ pc[1] = "done" /\ result[1] = 0
    /\ lastRead[1].how = "status" /\ OnlyOwnBytes(lastRead[1])
    /\ lastRead[1].writes[1].off = 0 /\ lastRead[1].writes[1].len = 3

\* c's call is an SMBus read that writes the command byte before it reads
IsReadAfterWrite(c) ==
    \E size \in {"BYTE_DATA", "WORD_DATA", "BLOCK_DATA", "I2C_BLOCK_DATA"} :
        IsSmbusRead(c, size)

\* the command write of c's call has failed: its report could not be sent,
\* or its status check ended in a bus reset
WritePhaseFailed(c) ==
    /\ sent[c] # <<>>
    /\ Recs(c, "rdreq") = <<>>
    /\ Last(sent[c]).k = "reset"

\* C12: in an SMBus ByteData, WordData, BlockData or I2cBlockData read whose
\* command write has failed, no read request is sent, the call never enters
\* ft260_i2c_read (so dev->read_buf, read_idx and read_len stay as they were:
\* as bound, in the first call), and the call returns the write's error: the
\* transport's code when the report could not be sent, -EIO otherwise.
C12_WritePhaseFails ==
    \A c \in Callers :
        (IsReadAfterWrite(c) /\ WritePhaseFailed(c)) =>
            LET s == sent[c]
                err == IF s[Len(s) - 1].k = "wr" THEN s[Len(s) - 1].rc ELSE -EIO
            IN  /\ pc[c] \in {"exit", "unlock", "done"}
                /\ l[c].rgen = 0
                /\ lastRead[c].how = "-"
                /\ err < 0
                /\ pc[c] \in {"exit", "unlock"} => l[c].ret = err
                /\ pc[c] = "done" => result[c] = err
                /\ txn = 1 =>
                     /\ read_buf = NullBuf /\ read_len = 0 /\ read_idx = 0
                     /\ gen = 0 /\ reqs = {}

\* a WordData read has returned -EIO after its command write's status check
\* failed; no read was started
C12_Witness ==
    /\ IsSmbusRead(1, "WORD_DATA")
    /\ pc[1] = "done" /\ result[1] = -EIO
    /\ Len(sent[1]) = 3
    /\ sent[1][1].k = "wr" /\ sent[1][2].k = "status" /\ sent[1][3].k = "reset"
    /\ read_buf = NullBuf

\* C13 as stated: every write report sent by ft260_i2c_write or
\* ft260_smbus_write has the report id 0xD0 + (n-1)/4, n being its own
\* payload-length field, and the id lies in [0xD0, 0xDE].
C13_AsStated ==
    \A c \in Callers :
        \A i \in 1..Len(sent[c]) :
            sent[c][i].k = "wr" =>
                LET n == sent[c][i].length
                IN  /\ sent[c][i].report = 208 + (IF n = 0 THEN 0 ELSE (n - 1) \div 4)
                    /\ sent[c][i].report \in 208..222

\* the bytes of write call k among the bytes accepted
AcceptedOf(k) == SelectSeq(accepted, LAMBDA b : b[1] = k)

\* C14: a UART write of n bytes with f bytes free in the ring enqueues the
\* first min(n, f) bytes of the caller's buffer and returns min(n, f); the
\* ring holds exactly the accepted bytes not yet dequeued, in order, so no
\* byte in it is overwritten; write_room is 256 minus their number, and 0
\* while the ring is full
C14_WriteAccepts ==
    /\ Ring(xmit) = Drop(accepted, dequeued)
    /\ ft260_uart_write_room = FIFO_SIZE - (Len(accepted) - dequeued)
    /\ ft260_uart_chars_in_buffer = FIFO_SIZE => ft260_uart_write_room = 0
    /\ \A w \in Writers :
         upc[w] # "idle" =>
           LET n == ul[w].count
               m == Min(n, ul[w].free)
           IN  /\ ul[w].ret = m
               /\ AcceptedOf(ul[w].k) = SubSeq(Buf(ul[w].k, n), 1, m)

\* a write of 300 bytes returned 0 because the ring was full, and it still is
C14_Witness ==
    \E w \in Writers :
       /\ upc[w] = "done"
       /\ ul[w].count = 300
       /\ ul[w].free = 0
       /\ ul[w].ret = 0
       /\ ft260_uart_write_room = 0

\* the payloads of the UART write reports sent, one after the other
RECURSIVE Payloads(_)
Payloads(reports) ==
    IF reports = <<>> THEN <<>>
    ELSE reports[1].data \o Payloads(Tail(reports))

\* a UART write report as the claim describes it
WellFormed(r) ==
    /\ Len(r.data) <= FT260_WR_DATA_MAX
    /\ r.length = Len(r.data)
    /\ r.report = FT260_UART_REPORT_MIN + CDiv(Len(r.data) - 1, 4)

\* C15, as stated: with writers running concurrently, every UART write
\* report sent has at most 60 payload bytes and a length field and an id
\* that match them, and the payloads in send order are the accepted bytes
\* in order, none lost, doubled or out of place
C15_AsStated ==
    /\ \A i \in 1 .. Len(uwire) : WellFormed(uwire[i])
    /\ Payloads(uwire) = SubSeq(accepted, 1, Len(Payloads(uwire)))
    /\ (\A w \in Writers : upc[w] = "idle") => Payloads(uwire) = accepted

\* C16, as stated: every run of ft260_uart_transmit_chars that took bytes
\* out of the ring calls tty_wakeup once when more than 128 bytes are free
\* as it ends, and does not call it when 128 bytes or fewer are free
C16_AsStated ==
    \A i \in 1 .. Len(drains) :
       drains[i].how # "none" => (drains[i].woke = 1 <=> drains[i].room > TTY_WAKEUP_WATERMARK)

\* the rate the claim has encoded for a requested rate b
ClaimedBaud(b) == IF b >= FT260_CFG_BAUD_MIN /\ b <= FT260_CFG_BAUD_MAX THEN b ELSE DEFAULT_BAUD

\* C17, as stated: the baud field of the configuration request holds the
\* requested rate b, lowest byte first, when 1200 <= b <= 12000000, and
\* 9600 otherwise
C17_AsStated ==
    cfg.n > 0 =>
       cfg.req.baudrate = [i \in 1 .. 4 |-> (ClaimedBaud(cfg.asked.baud) \div (256 ^ (i - 1))) % 256]

\* C18, as stated: the configuration request always carries the same flow
\* control value and no break, and its data bits, stop bits and parity are
\* those asked for, with 8 data bits for a word length other than 7 or 8
C18_AsStated ==
    cfg.n > 0 =>
       LET t == cfg.asked
       IN  /\ cfg.req.flow_ctrl = FT260_CFG_FLOW_CTRL_NONE
           /\ cfg.req.breaking = FT260_CFG_BREAKING_NO
           /\ cfg.req.data_bit = (IF t.csize = 7 THEN 7 ELSE 8)
           /\ cfg.req.stop_bit = (IF t.cstopb THEN FT260_CFG_STOP_TWO_BIT ELSE FT260_CFG_STOP_ONE_BIT)
           /\ cfg.req.parity = (IF ~t.parenb THEN FT260_CFG_PAR_NO
                                ELSE IF t.parodd THEN FT260_CFG_PAR_ODD ELSE FT260_CFG_PAR_EVEN)

\* what the claim has the dispatcher do with the report it was just given
DispatchRule ==
    LET id == ev'.id
        n == ev'.length
        dropped == UNCHANGED <<read_buf, read_len, read_idx, done, rx, mem, pc, l>>
    IN  IF id >= 208 /\ id <= 222
        THEN \/ panic'
             \/ /\ read_idx' = U16(read_idx + n)
                /\ n > 0 => mem' = Append(mem, [buf |-> read_buf.buf, off |-> read_buf.off + read_idx,
                                                len |-> n, tag |-> 0])
                /\ ev'.ret = 1
                /\ UNCHANGED <<read_buf, read_len, rx>>
        ELSE IF n > 60
        THEN ev'.ret = -EBADR /\ dropped
        ELSE IF id >= 240 /\ id <= 254
        THEN /\ ev'.ret = rx' - rx
             /\ ev'.ret \in 0 .. n
             /\ UNCHANGED <<read_buf, read_len, read_idx, done, mem>>
        ELSE ev'.ret = 0 /\ dropped

\* C19: ft260_raw_event tests the I2C id range first, then the length, then
\* the UART id range; a report that is too long or of an unknown id changes
\* neither the pending-read descriptor nor the completion nor the UART
\* receive counter, and a read that waits goes on waiting
C19_Dispatch == [][events' # events => DispatchRule]_vars

\* a report with a UART id and length 61 was dropped while a read waited
C19_Witness ==
    /\ ev = [id |-> FT260_UART_REPORT_MIN, length |-> FT260_RD_DATA_MAX + 1, ret |-> -EBADR]
    /\ pc[1] = "rd_wait"
    /\ read_buf # NullBuf
    /\ read_len = 2
    /\ read_idx = 0
    /\ done = 0

\* some caller is inside ft260_i2c_read
ReadOutstanding ==
    \E c \in Callers : pc[c] \in {"rd_start", "rd_arm", "rd_send", "rd_wait", "rd_status"}

\* C20, as stated: the pending-read descriptor is cleared when the read
\* returns, and an I2C data report delivered while no read is outstanding
\* writes nothing through the descriptor's destination
C20_AsStated ==
    [][/\ (ReadOutstanding /\ ~ReadOutstanding') => read_buf' = NullBuf
       /\ (events' # events /\ IsI2cReport(ev'.id) /\ ~ReadOutstanding) => (mem' = mem /\ ~panic')]_vars

\* the copy w, made during the read of generation g, answers an earlier
\* read's request
LateCopy(w, g) == w.tag > 0 /\ w.tag < g

\* C21, as stated: the completion is reset before the read request is sent,
\* and a data report that answers an earlier read's request adds no byte to
\* a later read's destination or offset and does not complete it
C21_AsStated ==
    /\ \A c \in Callers : pc[c] = "rd_wait" /\ events = 0 => done = 0
    /\ \A c \in Callers :
         /\ \A i \in 1 .. Len(lastRead[c].writes) : ~LateCopy(lastRead[c].writes[i], lastRead[c].gen)
         /\ pc[c] \in {"rd_wait", "rd_status"} =>
              \A i \in l[c].idx + 1 .. Len(mem) : ~LateCopy(mem[i], l[c].rgen)

\* a report of write call k could not be sent
SendFailed(k) == \E i \in 1 .. Len(uwire) : uwire[i].w = k /\ uwire[i].rc < 0

\* C22, as stated, for the UART write: a write one of whose reports could
\* not be sent returns a failure to its caller
C22_AsStated ==
    \A w \in Writers : (upc[w] = "done" /\ SendFailed(ul[w].k)) => ul[w].ret < 0

\* caller c computes usec = 10000 / dev->clock * len in this step: its write
\* report went out and the status check goes on
ComputesWait(c) == pc[c] \in {"wr_send", "smb_send"} /\ pc'[c] \in {"poll", "oops"}

\* C29, as stated: whenever the status check computes its wait from the
\* cached clock, the clock is not 0
C29_AsStated == [][\A c \in Callers : ComputesWait(c) => clock # 0]_vars

\* the drain of write k sent report i with no bytes in it: kfifo_out_locked
\* yielded nothing
EmptyReport(i) == uwire[i].out = 0

\* C27, as stated: a drain does not keep sending reports when the ring buffer
\* yields zero bytes: no drain sends two reports with nothing dequeued
C27_AsStated ==
    \A i, j \in 1 .. Len(uwire) :
      (i < j /\ uwire[i].w = uwire[j].w) => ~(EmptyReport(i) /\ EmptyReport(j))

\* the pending-read descriptor was set by a read that has not returned
ReadPending == \E c \in Callers : pc[c] \in {"rd_send", "rd_wait", "rd_status"}

\* C28, as stated: the pending read's received-byte offset never exceeds its
\* requested length
C28_AsStated == ReadPending => read_idx <= read_len

\* caller c is between a successful hid_hw_power(PM_HINT_FULLON) and the
\* hid_hw_power(PM_HINT_NORMAL) of its exit
HoldsPower(c) == pc[c] \notin {"idle", "lock", "power", "unlock", "done"}

\* the full-power hints taken and not yet given back
PowerHeld == Cardinality({c \in Callers : HoldsPower(c)})

\* C25: when a call has returned, by whatever path, its caller no longer
\* holds the device lock; the full-power hint is held exactly by the caller
\* that acquired it and has not reached its exit, always inside the lock, so
\* it is given back once and before the lock is released, and the lock is
\* released by the caller that took it
C25_Released ==
    /\ power = PowerHeld
    /\ \A c \in Callers :
         /\ pc[c] \in {"idle", "lock", "done"} => lock # c
         /\ pc[c] \in {"power", "unlock"} => lock = c
         /\ HoldsPower(c) => lock = c
    /\ lock = 0 => power = 0

\* a call that took the lock and the hint, sent reports, failed, and has
\* returned
C25_Witness ==
    \E c \in Callers :
      /\ pc[c] = "done" /\ result[c] < 0 /\ sent[c] # <<>>
      /\ lock = 0 /\ power = 0

\* caller c is inside ft260_i2c_xfer or ft260_smbus_xfer
InCall(c) == pc[c] \notin {"idle", "done"}

\* C26, as stated: every call eventually returns with the device lock
\* released by its caller, whatever the device does
C26_AsStated == \A c \in Callers : InCall(c) ~> (pc[c] = "done" /\ lock # c)

\* the devices bound in UART mode, and those that hold a slot of the table
BoundPorts == {d \in Devices : hdev[d].st = "bound" /\ hdev[d].serial}
SlotHolders == {d \in Devices : hdev[d].st \in {"uart_register", "bound"} /\ hdev[d].serial}
TableFull == \A i \in Slots : ft260_uart_table[i] # 0

\* the table and the devices agree: every holder owns the slot of its index,
\* every taken slot belongs to a holder, at most UART_COUNT_MAX are bound
TableSound ==
    /\ Cardinality(BoundPorts) <= UART_COUNT_MAX
    /\ \A d \in SlotHolders : ft260_uart_table[hdev[d].index] = d
    /\ \A d, e \in SlotHolders : d # e => hdev[d].index # hdev[e].index
    /\ \A i \in Slots : ft260_uart_table[i] # 0 => ft260_uart_table[i] \in SlotHolders

\* C24: across binds and unbinds in UART mode the table holds at most 4 bound
\* devices and no two share a slot index; a bind that finds all slots taken
\* fails with an error and changes nothing; an unbind empties the device's
\* slot; and a bind that finds a free slot, freed by an unbind or never used,
\* takes it
C24_PortTable ==
    [][/\ TableSound'
       /\ \A d \in Devices :
            /\ (hdev[d].st = "uart_probe" /\ hdev'[d] # hdev[d] /\ TableFull) =>
                 /\ hdev'[d].st = "unbound" /\ hdev'[d].ret < 0
                 /\ ft260_uart_table' = ft260_uart_table
            /\ (d \in BoundPorts /\ hdev'[d].st = "unbound") =>
                 ft260_uart_table'[hdev[d].index] = 0
            /\ (hdev[d].st = "uart_probe" /\ hdev'[d].st = "uart_register") =>
                 /\ ft260_uart_table[hdev'[d].index] = 0
                 /\ ft260_uart_table'[hdev'[d].index] = d
            /\ (hdev[d].st = "uart_probe" /\ hdev'[d].st = "unbound" /\ ~TableFull) =>
                 hdev'[d].ret = -ENOMEM]_vars

\* four devices are bound, each on its slot, and the bind of a fifth has
\* failed with -EBUSY
C24_Witness ==
    /\ Cardinality(BoundPorts) = UART_COUNT_MAX
    /\ \E d \in Devices : hdev[d].st = "unbound" /\ hdev[d].ret = -EBUSY

\* d is bound in I2C mode: its bind returned success and it is not unbound
I2cBound(d) == hdev[d].st = "bound" /\ hdev[d].drvdata /\ ~hdev[d].serial

\* C30, as stated: while a device is bound in I2C mode its adapter is
\* registered, and i2c_del_adapter is called on it once over its lifetime
C30_AsStated ==
    \A d \in Devices :
      /\ I2cBound(d) => (hdev[d].adap = "registered" /\ hdev[d].dels = 0)
      /\ hdev[d].dels <= 1

\* this step is an activation of the port
Activates == cfg'.n = cfg.n + 1 /\ cfg'.by = "activate"

\* C23, as stated: every activation leaves the transmit ring empty
\* (chars_in_buffer = 0, write_room = 256) in the buffer it already had, and
\* sends one configuration report made from the current line settings
C23_AsStated ==
    [][Activates =>
         /\ ft260_uart_chars_in_buffer' = 0
         /\ ft260_uart_write_room' = FIFO_SIZE
         /\ cfg'.req = ChangeSpeedRequest(uenv.host, termios)]_vars

\* the byte orders a caller may have written its offset in
Orders == {"little", "big"}

\* the offset that bytes, of 1 or 2 bytes, spell in byte order o
Decode(o, bytes) ==
    IF Len(bytes) = 1 THEN bytes[1]
    ELSE IF o = "little" THEN bytes[1] + 256 * bytes[2] ELSE 256 * bytes[1] + bytes[2]

\* the offset v in n bytes (1 or 2) in byte order o
Encode(o, n, v) ==
    IF n = 1 THEN <<v % 256>>
    ELSE IF o = "little" THEN <<v % 256, (v \div 256) % 256>>
    ELSE <<(v \div 256) % 256, v % 256>>

\* c's call is a write-then-read transfer with a read of more than 60 bytes
IsChunkedRead(c) ==
    /\ req[c].op = "i2c" /\ req[c].num = 2
    /\ req[c].len0 \in {1, 2} /\ req[c].len1 > FT260_RD_DATA_MAX

\* ceil(n / 60)
Chunks(n) == (n + FT260_RD_DATA_MAX - 1) \div FT260_RD_DATA_MAX

\* C31, as stated: a write-then-read transfer of N > 60 bytes makes
\* ceil(N/60) pairs of an offset write with Start and a read of at most 60
\* bytes with StartStop; the offset bytes of the k-th pair spell, in the
\* caller's byte order and width, the caller's offset plus the bytes already
\* read, whichever byte order the caller wrote its offset in; and the k-th
\* chunk goes to the destination right after the chunks before it
C31_AsStated ==
    \A c \in Callers :
      IsChunkedRead(c) =>
        LET w == Recs(c, "wr")
            r == Recs(c, "rdreq")
            n == req[c].len1
            first == MsgData(req[c].len0)
        IN  /\ Len(w) <= Chunks(n) /\ Len(r) <= Len(w)
            /\ (pc[c] = "done" /\ result[c] >= 0) => Len(w) = Chunks(n) /\ Len(r) = Chunks(n)
            /\ \A k \in 1 .. Len(r) :
                 /\ r[k].flag = FT260_FLAG_START_STOP
                 /\ r[k].length = Min(FT260_RD_DATA_MAX, n - FT260_RD_DATA_MAX * (k - 1))
            /\ pc[c] \in {"rd_send", "rd_wait", "rd_status"} =>
                 l[c].rdst.off = FT260_RD_DATA_MAX * (Len(w) - 1)
            /\ \A k \in 1 .. Len(w) :
                 /\ w[k].flag = FT260_FLAG_START
                 /\ \A o \in Orders :
                      w[k].data = Encode(o, req[c].len0,
                                         Decode(o, first) + FT260_RD_DATA_MAX * (k - 1))

=============================================================================
